---- MODULE Spec2Model ----
(***************************************************************************)
(* Progression ledger and reconciliation engine of mirror-app              *)
(* (src/src/lib/game.ts and its callers), as a state machine over the      *)
(* Firestore documents of one user:                                        *)
(*   users/{uid}/stats/main          the Stats Aggregate                   *)
(*   users/{uid}/xp_events/{key}     the XP Events                         *)
(*   users/{uid}/moments, daily_reflections   raw activity (read only)     *)
(* Each session (device / mounted screen) runs the async functions of      *)
(* game.ts; every await on the document store is one step.                 *)
(*                                                                         *)
(* Encodings.  A document's data is a function from field names to values; *)
(* a merge write overrides the written fields only.  A nullable value      *)
(* (null | v) is the set {} or {v}.  Time is counted in ticks, TicksPerDay *)
(* to the calendar day; days are numbered from 1970-01-01 (day 0).  A week *)
(* key `${year}-W${week}` is the pair <<year, week>>.                      *)
(***************************************************************************)
EXTENDS Integers, Sequences, FiniteSets, TLC

\* ------------------------------------------------------------------ bounds
\* calls one session may start
MaxCalls == 2
\* attempts runTransaction makes before it rejects (the SDK's default is 5)
MaxAttempts == 2
\* clock advances
MaxTicks == 1
\* clock resolution
TicksPerDay == 2
\* days before today that may hold a daily reflection
MaxDays == 4
\* computeLevel is applied to every XP up to MaxXP, and to the table's edges
MaxXP == 52

Sessions == {"s1", "s2"}

\* ----------------------------------------------------------- pure helpers
Min(a, b) == IF a <= b THEN a ELSE b
Max(a, b) == IF a >= b THEN a ELSE b

LEVEL_THRESHOLDS == <<0, 50, 200, 600, 1500, 3500, 7500>>
LEVEL_NAMES == <<"levels.beginner", "levels.explorer", "levels.seeker",
                 "levels.adept", "levels.navigator", "levels.guide", "levels.sage">>

LevelLoopEq(allTimeXP, i, level) ==
  LET RECURSIVE Loop(_, _)
      Loop(j, l) ==
        IF j > Len(LEVEL_THRESHOLDS) THEN l
        ELSE Loop(j + 1, IF allTimeXP = LEVEL_THRESHOLDS[j] THEN j ELSE l)
  IN Loop(i, level)

\* the for loop of computeLevel: i is the 1-based index, so `level = i + 1`
\* of the 0-based loop is `level = i` here
RECURSIVE LevelLoop(_, _, _)
LevelLoop(allTimeXP, i, level) ==
  IF i > Len(LEVEL_THRESHOLDS) THEN level
  ELSE LevelLoop(allTimeXP, i + 1,
                 IF allTimeXP >= LEVEL_THRESHOLDS[i] THEN i ELSE level)

computeLevelStrict(allTimeXP) ==
  LET RECURSIVE Loop(_, _)
      Loop(i, level) ==
        IF i > Len(LEVEL_THRESHOLDS) THEN level
        ELSE Loop(i + 1, IF allTimeXP > LEVEL_THRESHOLDS[i] THEN i ELSE level)
  IN Min(Loop(1, 1), Len(LEVEL_THRESHOLDS))

computeLevel(allTimeXP) ==
  Min(LevelLoop(allTimeXP, 1, 1), Len(LEVEL_THRESHOLDS))

computeLevelNameFallback(level) ==
  IF level \in 1..Len(LEVEL_NAMES) THEN LEVEL_NAMES[level] ELSE "levels.explorer"

computeLevelName(level) ==
  LEVEL_NAMES[Min(Max(level, 1), Len(LEVEL_NAMES))]

\* --------------------------------------------------------------- calendar
LeapsBefore(y) == ((y - 1) \div 4) - ((y - 1) \div 100) + ((y - 1) \div 400)
\* day number of January 1 of year y
YearStart(y) == 365 * (y - 1970) + LeapsBefore(y) - LeapsBefore(1970)
YearOfDay(d) == CHOOSE y \in 2020..2030 : YearStart(y) <= d /\ d < YearStart(y + 1)
\* Date.getUTCDay: 0 = Sunday; day 0 was a Thursday
getUTCDay(d) == (d + 4) % 7

DayOf(t) == t \div TicksPerDay

\* getCurrentDateKey: the calendar day of the instant
getCurrentDateKey(t) == DayOf(t)

getCurrentWeekKeyOwnYear(t) ==
  LET d == DayOf(t)
      dayNum == IF getUTCDay(d) = 0 THEN 7 ELSE getUTCDay(d)
      thu == d + 4 - dayNum
      year == YearOfDay(d)
  IN <<year, ((thu - YearStart(year) + 1) + 6) \div 7>>

\* getCurrentWeekKey: shift to the Thursday of the week, number the weeks
\* from January 1 of that Thursday's year
getCurrentWeekKey(t) ==
  LET d == DayOf(t)
      dayNum == IF getUTCDay(d) = 0 THEN 7 ELSE getUTCDay(d)
      thu == d + 4 - dayNum
      year == YearOfDay(thu)
      \* Math.ceil(((thu - yearStart) + 1) / 7)
      weekNo == ((thu - YearStart(year) + 1) + 6) \div 7
  IN <<year, weekNo>>

\* -------------------------------------------------------------- documents
NoFields == [f \in {} |-> 0]
NoDoc == [exists |-> FALSE, data |-> NoFields]
Doc(data) == [exists |-> TRUE, data |-> data]

\* stats.f || dflt
Field(data, f, dflt) == IF f \in DOMAIN data THEN data[f] ELSE dflt

MergeReplace(old, new) == new

\* setDoc(ref, new, {merge: true}) / updateDoc(ref, new)
Merge(old, new) ==
  [f \in (DOMAIN old) \cup (DOMAIN new) |-> IF f \in DOMAIN new THEN new[f] ELSE old[f]]

\* ------------------------------------------------------------------ state
VARIABLES
  now,        \* the clock, in ticks
  stats,      \* users/u1/stats/main: [exists, data]
  statsVer,   \* its update time: bumped by every write that changes it
  xp,         \* users/u1/xp_events: key -> event document
  moments,    \* users/u1/moments: id -> document
  reflections,\* users/u1/daily_reflections: id -> document
  badges,     \* users/u1/badges: badge id -> document
  cards,      \* per session: the state of its DailyReflections component
  calc,       \* a caller's applications of computeLevel: arguments and results
  pc,         \* per session: the await the running call is suspended at
  loc,        \* per session: the running call's arguments and locals
  nops,       \* per session: calls started
  log,        \* per session: how each awardXpOnce call ended: its arguments
              \* and the result returned ({awarded, level}) or the rejection
              \* (failed)
  events,     \* users/u1/events: id -> document
  ret         \* per session: what its last awardBadge call returned

vars == <<now, stats, statsVer, xp, moments, reflections, badges, cards, calc, pc, loc, nops,
          log, events, ret>>

\* Sunday 2024-01-07, the last day of ISO week 2024-W01
BaseDay == YearStart(2024) + 6
StartTime == BaseDay * TicksPerDay + (TicksPerDay - 1)

\* the XP events an established user already has (two saved moments, one
\* with a depth bonus, and one completed daily reflection, all in 2024-W01)
BaseEvents ==
  LET ev(a) == [amount |-> a, createdAt |-> BaseDay * TicksPerDay,
                weekKey |-> <<2024, 1>>, metadata |-> NoFields]
  IN [k \in {"MOMENT_COMPLETED_e0", "DEPTH_BONUS_e0", "MOMENT_COMPLETED_e1",
             "DAILY_REFLECTIONS_COMPLETED_2024-01-07"} |->
        CASE k = "MOMENT_COMPLETED_e0" -> ev(10)
          [] k = "DEPTH_BONUS_e0" -> ev(5)
          [] k = "MOMENT_COMPLETED_e1" -> ev(10)
          [] OTHER -> ev(15)]

\* the aggregate of that user: created by ensureStatsDoc, then two
\* momentsCount increments and the four grants above (10 + 5 + 10 + 15)
BaseStats ==
  Doc([allTimeXP |-> 40, weeklyXP |-> 40, weeklyKey |-> <<2024, 1>>,
       level |-> 1, levelName |-> "levels.beginner", activeBadgeId |-> {},
       momentsCount |-> 2, reflectionsCount |-> 0, streakDays |-> 0,
       bestStreakDays |-> 0, journeyDay |-> 0, journeyWeekKey |-> <<2024, 1>>,
       lastMomentAt |-> {BaseDay * TicksPerDay}])

\* that user's daily reflection of 2024-01-07, answered and marked complete
BaseReflections ==
  [id \in {BaseDay} |->
     [support_answer |-> {"Maybe"}, reframe_answer |-> {"Neutral"},
      boundary_answer |-> {"No"}, completed |-> TRUE, dateKey |-> {BaseDay},
      completedAt |-> {BaseDay * TicksPerDay}, momentId |-> {}]]

IdleLoc ==
  [op |-> "none", uid |-> "", eventId |-> "", amount |-> 0, weekKey |-> <<>>,
   attempts |-> 0, xpSeen |-> {}, statsSeen |-> NoDoc, seenVer |-> 0,
   momentsSeen |-> {}, reflectionsSeen |-> {}, updates |-> NoFields,
   metadata |-> NoFields, todo |-> <<>>, dateKey |-> 0, caller |-> "none",
   next |-> 0, failed |-> {}, badgeId |-> "", check |-> <<>>,
   field |-> ""]

\* no application of computeLevel under way
NoCalc == [x |-> 0, y |-> 0, lx |-> {}, ly |-> {}]

\* part_009 lines 31-33: the DailyReflections card of a session before it is
\* mounted; reflection is the component's state, null ({}) at first
NoCard == [mounted |-> FALSE, todayKey |-> 0, reflection |-> {}, effect |-> FALSE]
NoCards == [s \in Sessions |-> NoCard]
\* no awardBadge call has returned yet
NoRet == {}
NoRets == [s \in Sessions |-> NoRet]

InitStore ==
  /\ now = StartTime
  /\ \/ stats = NoDoc /\ xp = NoFields /\ reflections = NoFields
     \/ stats = BaseStats /\ xp = BaseEvents /\ reflections = BaseReflections
  /\ statsVer = 0
  /\ moments = NoFields
  /\ badges = NoFields
  /\ cards = NoCards
  /\ events = NoFields
  /\ ret = NoRets
  /\ pc = [s \in Sessions |-> "idle"]
  /\ loc = [s \in Sessions |-> IdleLoc]
  /\ nops = [s \in Sessions |-> 0]
  /\ log = [s \in Sessions |-> <<>>]

Init == InitStore /\ calc = NoCalc

\* the clock advances
Tick ==
  /\ now < StartTime + MaxTicks
  /\ now' = now + 1
  /\ UNCHANGED <<stats, statsVer, xp, moments, reflections, badges, cards, calc, pc, loc, nops, log, events, ret>>

\* a write to the aggregate; a write that changes nothing keeps its update time
WriteStats(newDoc) ==
  /\ stats' = newDoc
  /\ statsVer' = IF newDoc = stats THEN statsVer ELSE statsVer + 1

\* ------------------------------------------------------------ awardXpOnce
\* what the callers pass: <<uid, eventId, amount>>.  The amount goes with the
\* kind of key (game.ts:333, game.ts:338); "K" is the key of the spec's example
ValidInputs ==
  {<<"u1", "K", 10>>,
   <<"u1", "MOMENT_COMPLETED_2024-01-08", 10>>,
   <<"u1", "DAILY_REFLECTIONS_COMPLETED_2024-01-08", 15>>}
\* the two keys sessions race on: the same key twice, or one key each
LedgerInputs ==
  {<<"u1", "K", 10>>, <<"u1", "DAILY_REFLECTIONS_COMPLETED_2024-01-08", 15>>}

\* what one session passes in the sequential runs: the valid calls, and one
\* call failing each precondition of line 78
SeqInputs ==
  {<<"u1", "K", 10>>,
   <<"u1", "MOMENT_COMPLETED_2024-01-08", 10>>,
   <<"u1", "DAILY_REFLECTIONS_COMPLETED_2024-01-08", 15>>,
   <<"", "K", 10>>, <<"u1", "", 10>>, <<"u1", "K", 0>>, <<"u1", "K", 0 - 5>>}

InvalidArgsNegativeOnly(uid, eventId, amount) ==
  uid = "" \/ eventId = "" \/ amount < 0

\* line 78: !uid || !eventId || amount <= 0
InvalidArgs(uid, eventId, amount) ==
  uid = "" \/ eventId = "" \/ amount <= 0

Returned(s, awarded, level, failed) ==
  Append(log[s], [uid |-> loc[s].uid, eventId |-> loc[s].eventId,
                  amount |-> loc[s].amount, awarded |-> awarded,
                  level |-> level, failed |-> failed])

\* lines 72-83: the call, up to the first attempt of the transaction
AwardCall(s, Inputs) ==
  /\ pc[s] = "idle"
  /\ nops[s] < MaxCalls
  /\ \E in \in Inputs :
       IF InvalidArgs(in[1], in[2], in[3])
       THEN /\ log' = [log EXCEPT ![s] =
                         Append(@, [uid |-> in[1], eventId |-> in[2], amount |-> in[3],
                                    awarded |-> FALSE, level |-> {}, failed |-> FALSE])]
            /\ UNCHANGED <<pc, loc>>
       ELSE /\ pc' = [pc EXCEPT ![s] = "tx_get_xp"]
            /\ loc' = [loc EXCEPT ![s] =
                         [IdleLoc EXCEPT !.op = "award", !.uid = in[1], !.eventId = in[2],
                                         !.amount = in[3],
                                         !.weekKey = getCurrentWeekKey(now),
                                         !.attempts = 1]]
            /\ UNCHANGED log
  /\ nops' = [nops EXCEPT ![s] = @ + 1]
  /\ UNCHANGED <<now, stats, statsVer, xp, moments, reflections, badges, cards, calc, events, ret>>

\* the XP event document as a snapshot: {} when it does not exist
XpDoc(eventId) == IF eventId \in DOMAIN xp THEN {xp[eventId]} ELSE {}

XpSnapNeverExists(s) == {}

\* line 84: tx.get(xpRef)
XpSnap(s) == XpDoc(loc[s].eventId)

\* lines 84-87: the existence check; an existing event ends the update
\* function, and the transaction goes to commit with no writes
TxGetXp(s) ==
  /\ pc[s] = "tx_get_xp"
  /\ loc' = [loc EXCEPT ![s].xpSeen = XpSnap(s)]
  /\ pc' = [pc EXCEPT ![s] = IF XpSnap(s) # {} THEN "tx_commit" ELSE "tx_get_stats"]
  /\ UNCHANGED <<now, stats, statsVer, xp, moments, reflections, badges, cards, calc, nops, log, events, ret>>

\* line 89: tx.get(sRef)
TxGetStats(s) ==
  /\ pc[s] = "tx_get_stats"
  /\ loc' = [loc EXCEPT ![s].statsSeen = stats, ![s].seenVer = statsVer]
  /\ pc' = [pc EXCEPT ![s] = "tx_commit"]
  /\ UNCHANGED <<now, stats, statsVer, xp, moments, reflections, badges, cards, calc, nops, log, events, ret>>

AwardUpdatesOldLevel(data, weekKey, amount) ==
  LET weeklyXP == IF Field(data, "weeklyKey", <<>>) = weekKey
                  THEN Field(data, "weeklyXP", 0) ELSE 0
      allTimeXP == Field(data, "allTimeXP", 0)
      level == computeLevel(allTimeXP)
  IN [weeklyKey |-> weekKey, weeklyXP |-> weeklyXP + amount,
      allTimeXP |-> allTimeXP + amount,
      level |-> level, levelName |-> computeLevelName(level)]

AwardUpdatesNoReset(data, weekKey, amount) ==
  LET newAll == Field(data, "allTimeXP", 0) + amount
      newWeekly == Field(data, "weeklyXP", 0) + amount
  IN [weeklyKey |-> weekKey, weeklyXP |-> newWeekly, allTimeXP |-> newAll,
      level |-> computeLevel(newAll), levelName |-> computeLevelName(computeLevel(newAll))]

AwardUpdatesStoredKey(data, weekKey, amount) ==
  LET allTimeXP == Field(data, "allTimeXP", 0)
      newAll == allTimeXP + amount
  IN [weeklyKey |-> Field(data, "weeklyKey", <<>>),
      weeklyXP |-> Field(data, "weeklyXP", 0) + amount, allTimeXP |-> newAll,
      level |-> computeLevel(newAll), levelName |-> computeLevelName(computeLevel(newAll))]

\* lines 90-96 and 111-117: the Ledger-owned fields the transaction writes
AwardUpdates(data, weekKey, amount) ==
  LET weeklyXP == IF Field(data, "weeklyKey", <<>>) = weekKey
                  THEN Field(data, "weeklyXP", 0) ELSE 0
      allTimeXP == Field(data, "allTimeXP", 0)
      newAll == allTimeXP + amount
      newWeekly == weeklyXP + amount
      level == computeLevel(newAll)
      levelName == computeLevelName(level)
  IN [weeklyKey |-> weekKey, weeklyXP |-> newWeekly, allTimeXP |-> newAll,
      level |-> level, levelName |-> levelName]

TxPreconditionsNone(s) == TRUE

TxPreconditionsXpOnly(s) == loc[s].xpSeen = XpDoc(loc[s].eventId)

\* the commit's preconditions: every document the attempt read is as read
TxPreconditions(s) ==
  /\ loc[s].xpSeen = XpDoc(loc[s].eventId)
  /\ loc[s].xpSeen = {} => loc[s].seenVer = statsVer

MayRetryAlways(s) == TRUE

\* line 83: runTransaction re-runs the update function while attempts remain
MayRetry(s) == loc[s].attempts < MaxAttempts

\* the event document of lines 99-105
NewEvent(s) ==
  [amount |-> loc[s].amount, createdAt |-> now, weekKey |-> loc[s].weekKey,
   metadata |-> loc[s].metadata]

TxSetXpUnbuffered(s, applied) ==
  [k \in (DOMAIN xp) \cup {loc[s].eventId} |->
     IF k = loc[s].eventId THEN NewEvent(s) ELSE xp[k]]

\* lines 98-107: tx.set(xpRef, {...}, {merge: true}) is buffered in the
\* transaction and reaches the store only with a commit that is applied
TxSetXp(s, applied) ==
  IF applied
  THEN [k \in (DOMAIN xp) \cup {loc[s].eventId} |->
          IF k = loc[s].eventId
          THEN Merge(IF k \in DOMAIN xp THEN xp[k] ELSE NoFields, NewEvent(s))
          ELSE xp[k]]
  ELSE xp

\* the call of awardXpOnce that line 83 starts: the week key is fixed, and
\* the first attempt of the transaction begins.  todo holds the grants the
\* caller makes after this one (game.ts:332-339), none for a direct call
StartAward(grant, todo, dateKey) ==
  [IdleLoc EXCEPT !.op = "quests", !.uid = "u1", !.eventId = grant.eventId,
                  !.amount = grant.amount, !.metadata = [dateKey |-> dateKey],
                  !.weekKey = getCurrentWeekKey(now), !.attempts = 1,
                  !.todo = todo, !.dateKey = dateKey]

\* line 125: awardXpOnce returns to its caller, which makes its next grant
\* or is done
AwardReturns(s) ==
  IF loc[s].todo = <<>>
  THEN /\ pc' = [pc EXCEPT ![s] = "idle"]
       /\ loc' = [loc EXCEPT ![s] = IdleLoc]
  ELSE /\ pc' = [pc EXCEPT ![s] = "tx_get_xp"]
       /\ loc' = [loc EXCEPT ![s] =
                    [StartAward(Head(loc[s].todo), Tail(loc[s].todo), loc[s].dateKey)
                       EXCEPT !.op = loc[s].op]]

\* lines 98-124: commit.  With the preconditions met the writes are applied
\* atomically and the call returns; otherwise the update function is run
\* again from line 84, and after MaxAttempts attempts the call rejects.  An
\* update function that returned at line 86 has buffered no write
TxCommit(s) ==
  /\ pc[s] = "tx_commit"
  /\ IF TxPreconditions(s)
     THEN /\ IF loc[s].xpSeen # {}
             THEN /\ log' = [log EXCEPT ![s] = Returned(s, FALSE, {}, FALSE)]
                  /\ UNCHANGED <<stats, statsVer, xp>>
             ELSE LET upd == AwardUpdates(loc[s].statsSeen.data, loc[s].weekKey,
                                          loc[s].amount)
                  IN /\ xp' = TxSetXp(s, TRUE)
                     /\ WriteStats(Doc(Merge(stats.data, upd)))
                     /\ log' = [log EXCEPT ![s] = Returned(s, TRUE, {upd.level}, FALSE)]
          /\ AwardReturns(s)
     ELSE /\ xp' = IF loc[s].xpSeen # {} THEN xp ELSE TxSetXp(s, FALSE)
          /\ UNCHANGED <<stats, statsVer>>
          /\ IF MayRetry(s)
             THEN /\ pc' = [pc EXCEPT ![s] = "tx_get_xp"]
                  /\ loc' = [loc EXCEPT ![s].attempts = @ + 1, ![s].xpSeen = {},
                                        ![s].statsSeen = NoDoc, ![s].seenVer = 0]
                  /\ UNCHANGED log
             ELSE /\ log' = [log EXCEPT ![s] = Returned(s, FALSE, {}, TRUE)]
                  /\ pc' = [pc EXCEPT ![s] = "idle"]
                  /\ loc' = [loc EXCEPT ![s] = IdleLoc]
  /\ UNCHANGED <<now, moments, reflections, badges, cards, calc, nops, events, ret>>

AwardStep(s, Inputs) == AwardCall(s, Inputs) \/ TxGetXp(s) \/ TxGetStats(s) \/ TxCommit(s)

\* --------------------------------------------------------- ensureStatsDoc
EndCall(s) ==
  /\ pc' = [pc EXCEPT ![s] = "idle"]
  /\ loc' = [loc EXCEPT ![s] = IdleLoc]

\* lines 55-68: the document ensureStatsDoc creates
NewStatsDoc(weekKey) ==
  [allTimeXP |-> 0, weeklyXP |-> 0, weeklyKey |-> weekKey, level |-> 1,
   levelName |-> computeLevelName(1), activeBadgeId |-> {}, momentsCount |-> 0,
   reflectionsCount |-> 0, streakDays |-> 0, bestStreakDays |-> 0,
   journeyDay |-> 0, journeyWeekKey |-> weekKey]

\* lines 51-54: getDoc; an existing document ends ensureStatsDoc, a missing
\* one fixes the week key and issues the setDoc.  op is the running call:
\* ensureStatsDoc itself, or reconcileStatsFromData (line 140)
EnsureGet(s, op) ==
  /\ pc[s] = "idle"
  /\ nops[s] < MaxCalls
  /\ nops' = [nops EXCEPT ![s] = @ + 1]
  /\ IF stats.exists
     THEN IF op = "recon"
          THEN /\ pc' = [pc EXCEPT ![s] = "recon_reads"]
               /\ loc' = [loc EXCEPT ![s] = [IdleLoc EXCEPT !.op = op]]
          ELSE EndCall(s)
     ELSE /\ pc' = [pc EXCEPT ![s] = "ensure_set"]
          /\ loc' = [loc EXCEPT ![s] =
                       [IdleLoc EXCEPT !.op = op, !.weekKey = getCurrentWeekKey(now)]]
  /\ UNCHANGED <<now, stats, statsVer, xp, moments, reflections, badges, cards, calc, log, events, ret>>

\* lines 55-68: setDoc(ref, {...}) without merge replaces the document
EnsureSet(s) ==
  /\ pc[s] = "ensure_set"
  /\ WriteStats(Doc(NewStatsDoc(loc[s].weekKey)))
  /\ IF loc[s].op = "recon"
     THEN /\ pc' = [pc EXCEPT ![s] = "recon_reads"]
          /\ loc' = [loc EXCEPT ![s] = [IdleLoc EXCEPT !.op = "recon"]]
     ELSE EndCall(s)
  /\ UNCHANGED <<now, xp, moments, reflections, badges, cards, calc, nops, log, events, ret>>

\* ------------------------------------------- useProgress.loadProgress
\* useProgress.native.ts lines 40-43: getDoc, and the week key when missing
LoadGet(s) ==
  /\ pc[s] = "idle"
  /\ nops[s] < MaxCalls
  /\ nops' = [nops EXCEPT ![s] = @ + 1]
  /\ IF stats.exists
     THEN /\ pc' = [pc EXCEPT ![s] = "load_show"]
          /\ loc' = [loc EXCEPT ![s] = [IdleLoc EXCEPT !.op = "load"]]
     ELSE /\ pc' = [pc EXCEPT ![s] = "load_set"]
          /\ loc' = [loc EXCEPT ![s] =
                       [IdleLoc EXCEPT !.op = "load", !.weekKey = getCurrentWeekKey(now)]]
  /\ UNCHANGED <<now, stats, statsVer, xp, moments, reflections, badges, cards, calc, log, events, ret>>

\* useProgress.native.ts lines 44-52: setDoc without merge
LoadSet(s) ==
  /\ pc[s] = "load_set"
  /\ WriteStats(Doc([allTimeXP |-> 0, weeklyXP |-> 0, weeklyKey |-> loc[s].weekKey,
                     level |-> 1, activeBadgeId |-> {}, momentsCount |-> 0,
                     reflectionsCount |-> 0]))
  /\ pc' = [pc EXCEPT ![s] = "load_show"]
  /\ UNCHANGED <<now, xp, moments, reflections, badges, cards, calc, loc, nops, log, events, ret>>

\* useProgress.native.ts lines 54-81: the second getDoc and the view model,
\* which is component state and writes nothing to the store
LoadShow(s) ==
  /\ pc[s] = "load_show"
  /\ EndCall(s)
  /\ UNCHANGED <<now, stats, statsVer, xp, moments, reflections, badges, cards, calc, nops, log, events, ret>>

\* ----------------------------------------------------- reconcileWeeklyReset
WeeklyStaleAlways(data, weekKey) == TRUE

\* line 133: stats.weeklyKey !== weekKey
WeeklyStale(data, weekKey) == Field(data, "weeklyKey", <<>>) # weekKey

\* lines 128-133: getDoc, and the comparison with the current week key
WeeklyGet(s) ==
  /\ pc[s] = "idle"
  /\ nops[s] < MaxCalls
  /\ nops' = [nops EXCEPT ![s] = @ + 1]
  /\ IF stats.exists /\ WeeklyStale(stats.data, getCurrentWeekKey(now))
     THEN /\ pc' = [pc EXCEPT ![s] = "weekly_update"]
          /\ loc' = [loc EXCEPT ![s] =
                       [IdleLoc EXCEPT !.op = "weekly", !.weekKey = getCurrentWeekKey(now)]]
     ELSE EndCall(s)
  /\ UNCHANGED <<now, stats, statsVer, xp, moments, reflections, badges, cards, calc, log, events, ret>>

\* line 134: updateDoc(ref, {weeklyKey, weeklyXP: 0})
WeeklyUpdate(s) ==
  /\ pc[s] = "weekly_update"
  /\ WriteStats(Doc(Merge(stats.data, [weeklyKey |-> loc[s].weekKey, weeklyXP |-> 0])))
  /\ EndCall(s)
  /\ UNCHANGED <<now, xp, moments, reflections, badges, cards, calc, nops, log, events, ret>>

\* --------------------------------------------------- reconcileStatsFromData
\* d.dateKey || docSnap.id
DateKeyOf(snap, id) ==
  IF Field(snap[id], "dateKey", {}) # {}
  THEN CHOOSE d \in snap[id].dateKey : TRUE ELSE id

Completed(snap) == {id \in DOMAIN snap : Field(snap[id], "completed", FALSE)}

\* the greatest of a set of instants, null for none
Latest(S) == IF S = {} THEN {} ELSE {CHOOSE t \in S : \A u \in S : u <= t}

\* lines 177-180: the completed dates, latest first
RECURSIVE SortedDates(_, _)
SortedDates(snap, ids) ==
  IF ids = {} THEN <<>>
  ELSE LET m == CHOOSE i \in ids :
                  \A j \in ids : DateKeyOf(snap, i) >= DateKeyOf(snap, j)
       IN <<DateKeyOf(snap, m)>> \o SortedDates(snap, ids \ {m})

StreakWalkNoBreak(dates, i, prev, streak, bestStreak) ==
  LET RECURSIVE Walk(_, _, _)
      Walk(j, st, best) ==
        IF j > Len(dates) THEN <<st, best>>
        ELSE Walk(j + 1, st + 1, Max(best, st + 1))
  IN Walk(i, streak, bestStreak)

StreakWalkDupExtends(dates, i, prev, streak, bestStreak) ==
  LET RECURSIVE Walk(_, _, _, _)
      Walk(j, p, st, best) ==
        IF j > Len(dates) THEN <<st, best>>
        ELSE LET n == IF p = {} THEN 1
                      ELSE IF (CHOOSE q \in p : TRUE) - dates[j] <= 1 THEN st + 1
                      ELSE 1
             IN Walk(j + 1, {dates[j]}, n, Max(best, n))
  IN Walk(i, prev, streak, bestStreak)

\* lines 182-199: the walk; prev is null ({}) before the first date
RECURSIVE StreakWalk(_, _, _, _, _)
StreakWalk(dates, i, prev, streak, bestStreak) ==
  IF i > Len(dates) THEN <<streak, bestStreak>>
  ELSE LET diff == (CHOOSE p \in prev : TRUE) - dates[i]
           st == IF prev = {} THEN 1
                 ELSE IF diff = 1 THEN streak + 1
                 ELSE IF diff > 1 THEN 1
                 ELSE streak
       IN StreakWalk(dates, i + 1, {dates[i]}, st, Max(bestStreak, st))

HasDepthTagsOnly(d) == Field(d, "tags", 0) > 0

\* line 159: (d.tags && d.tags.length) || d.note; tags is the number of
\* tags, note whether the note is a non-empty string
HasDepth(d) == Field(d, "tags", 0) > 0 \/ Field(d, "note", FALSE)

\* new Date(x) of a value that is no date: an Invalid Date, whose time value
\* is NaN; every comparison with it is false and its toISOString throws
InvalidDate == 0 - 1

\* the order in which a snapshot of the moments collection is walked: by
\* document id
MomentOrder == <<"m1", "m2", "m3">>

\* lines 155-158: lastMomentAt after the walk from position i on: a created
\* date replaces null, and replaces a date only if it compares greater
RECURSIVE LastMomentAt(_, _, _)
LastMomentAt(momentsSnap, i, lastMomentAt) ==
  IF i > Len(MomentOrder) THEN lastMomentAt
  ELSE LET id == MomentOrder[i]
           createdAt == IF id \in DOMAIN momentsSnap
                        THEN Field(momentsSnap[id], "createdAt", {}) ELSE {}
           greater == \E c \in createdAt, l \in lastMomentAt :
                        c # InvalidDate /\ l # InvalidDate /\ c > l
       IN LastMomentAt(momentsSnap, i + 1,
                       IF createdAt # {} /\ (lastMomentAt = {} \/ greater)
                       THEN createdAt ELSE lastMomentAt)

\* lines 147-231: the fields reconcileStatsFromData writes, from the two
\* snapshots and the clock
ReconUpdates(momentsSnap, reflectionsSnap, t) ==
  LET done == Completed(reflectionsSnap)
      reflectionDates == {DateKeyOf(reflectionsSnap, id) : id \in done}
      walk == StreakWalk(SortedDates(reflectionsSnap, done), 1, {}, 0, 0)
      today == getCurrentDateKey(t)
      sevenDaysAgo == t - 6 * TicksPerDay
      created(id) == Field(momentsSnap[id], "createdAt", {})
      journeyDays == {DayOf(c) : c \in {x \in UNION {created(id) : id \in DOMAIN momentsSnap} :
                                          x >= sevenDaysAgo}}
      emotions == UNION {Field(momentsSnap[id], "emotion", {}) : id \in DOMAIN momentsSnap}
  IN [momentsCount |-> Cardinality(DOMAIN momentsSnap),
      reflectionsCount |-> Cardinality(done),
      streakDays |-> IF today \in reflectionDates THEN walk[1] ELSE 0,
      bestStreakDays |-> walk[2],
      journeyDay |-> Min(7, Cardinality(journeyDays)),
      lastMomentAt |-> LastMomentAt(momentsSnap, 1, {}),
      lastReflectionAt |->
        Latest(UNION {Field(reflectionsSnap[id], "completedAt", {}) : id \in done}),
      depthMoments |->
        Cardinality({id \in DOMAIN momentsSnap : HasDepth(momentsSnap[id])}),
      emotionCounts |->
        [e \in emotions |->
           Cardinality({id \in DOMAIN momentsSnap :
                          Field(momentsSnap[id], "emotion", {}) = {e}})]]

\* lines 142-145: one of the two getDocs of the Promise.all resolves; when
\* both have, lines 147-231 run and the setDoc is issued
ReconRead(s) ==
  /\ pc[s] = "recon_reads"
  /\ \E which \in {"moments", "reflections"} :
       /\ IF which = "moments" THEN loc[s].momentsSeen = {} ELSE loc[s].reflectionsSeen = {}
       /\ LET m == IF which = "moments" THEN {moments} ELSE loc[s].momentsSeen
              r == IF which = "reflections" THEN {reflections} ELSE loc[s].reflectionsSeen
          IN IF m # {} /\ r # {}
             THEN /\ pc' = [pc EXCEPT ![s] = "recon_set"]
                  /\ loc' = [loc EXCEPT ![s] =
                               [IdleLoc EXCEPT !.op = "recon",
                                  !.updates = ReconUpdates(CHOOSE x \in m : TRUE,
                                                           CHOOSE x \in r : TRUE, now)]]
             ELSE /\ loc' = [loc EXCEPT ![s].momentsSeen = m, ![s].reflectionsSeen = r]
                  /\ UNCHANGED pc
  /\ UNCHANGED <<now, stats, statsVer, xp, moments, reflections, badges, cards, calc, nops, log, events, ret>>

\* line 233: setDoc(ref, updates, {merge: true}).  An Invalid Date among the
\* values is converted to a timestamp by the Firestore client, which is not
\* part of this source: the write is applied with it, or the setDoc rejects
\* and reconcileStatsFromData with it
ReconSet(s) ==
  /\ pc[s] = "recon_set"
  /\ \E applied \in IF loc[s].updates.lastMomentAt = {InvalidDate} THEN BOOLEAN ELSE {TRUE} :
       IF applied
       THEN WriteStats(Doc(Merge(stats.data, loc[s].updates)))
       ELSE UNCHANGED <<stats, statsVer>>
  /\ EndCall(s)
  /\ UNCHANGED <<now, xp, moments, reflections, badges, cards, calc, nops, log, events, ret>>

EngineStep(s) ==
  \/ AwardStep(s, {<<"u1", "K", 10>>})
  \/ EnsureGet(s, "ensure") \/ EnsureGet(s, "recon") \/ EnsureSet(s)
  \/ LoadGet(s) \/ LoadSet(s) \/ LoadShow(s)
  \/ WeeklyGet(s) \/ WeeklyUpdate(s)
  \/ ReconRead(s) \/ ReconSet(s)

\* the user's sessions running the engine's operations in any interleaving
Next == Tick \/ \E s \in Sessions : EngineStep(s)
Spec == Init /\ [][Next]_vars

\* one session making awardXpOnce calls one after the other
NextSeq == Tick \/ AwardStep("s1", SeqInputs)
SpecSeq == Init /\ [][NextSeq]_vars

\* the user's sessions making awardXpOnce calls concurrently
NextLedger == Tick \/ \E s \in Sessions : AwardStep(s, LedgerInputs)
SpecLedger == Init /\ [][NextLedger]_vars

\* one session calling awardXpOnce with "K", again after a rejection, while
\* another session makes its own calls with any of the keys
NextRetry == Tick \/ AwardStep("s1", {<<"u1", "K", 10>>}) \/ AwardStep("s2", ValidInputs)
SpecRetry == Init /\ [][NextRetry]_vars

\* one session calling awardXpOnce with "K" against another session's calls,
\* the clock standing still, with every started transaction taking its steps:
\* the SDK resolves each tx.get and each commit request in finite time
NextConflict == AwardStep("s1", {<<"u1", "K", 10>>}) \/ AwardStep("s2", ValidInputs)
SpecConflictFair ==
  /\ Init /\ [][NextConflict]_vars
  /\ \A s \in Sessions : WF_vars(TxGetXp(s) \/ TxGetStats(s) \/ TxCommit(s))

\* one session calling reconcileWeeklyReset and awardXpOnce one after the other
NextWeekly ==
  Tick \/ AwardStep("s1", {<<"u1", "K", 10>>}) \/ WeeklyGet("s1") \/ WeeklyUpdate("s1")
SpecWeekly == Init /\ [][NextWeekly]_vars

\* one session calling reconcileWeeklyReset while another session calls
\* awardXpOnce
NextWeeklyRace ==
  Tick \/ WeeklyGet("s1") \/ WeeklyUpdate("s1") \/ AwardStep("s2", {<<"u1", "K", 10>>})
SpecWeeklyRace == Init /\ [][NextWeeklyRace]_vars

\* ------------------------------------------------------------ computeLevel
\* the XP values computeLevel is applied to: a negative one, every value up
\* to MaxXP, both sides of every threshold, and a very large one
XPValues ==
  (0..MaxXP) \cup {0 - 5, 199, 200, 201, 599, 600, 601, 1499, 1500, 1501,
                   3499, 3500, 3501, 7499, 7500, 7501, 1000000}

InitLevel ==
  /\ InitStore
  /\ calc \in [x : XPValues, y : XPValues, lx : {{}}, ly : {{}}]

\* useProgress.native.ts line 56, game.ts line 95: a caller applies
\* computeLevel to an XP total
ComputeLevelCall ==
  /\ calc.lx = {}
  /\ calc' = [calc EXCEPT !.lx = {computeLevel(calc.x)}, !.ly = {computeLevel(calc.y)}]
  /\ UNCHANGED <<now, stats, statsVer, xp, moments, reflections, badges, cards, pc, loc, nops, log, events, ret>>

SpecLevel == InitLevel /\ [][ComputeLevelCall]_vars

\* -------------------------------------------------------- getCurrentWeekKey
\* the dates getCurrentWeekKey is applied to: the days around every New Year
\* from 2021 to 2027, at every time of day, each with a date up to a week later
WeekDays == UNION {(YearStart(y) - 8)..(YearStart(y) + 8) : y \in 2021..2027}
InitWeekKey ==
  /\ InitStore
  /\ \E d \in WeekDays, e \in 0..7, k \in 0..(TicksPerDay - 1) :
       calc = [x |-> d * TicksPerDay + k, y |-> (d + e) * TicksPerDay, lx |-> {}, ly |-> {}]

\* game.ts lines 82, 129, useProgress.native.ts line 43: a caller takes the
\* week key of a date
WeekKeyCall ==
  /\ calc.lx = {}
  /\ calc' = [calc EXCEPT !.lx = {getCurrentWeekKey(calc.x)},
                          !.ly = {getCurrentWeekKey(calc.y)}]
  /\ UNCHANGED <<now, stats, statsVer, xp, moments, reflections, badges, cards, pc, loc, nops, log, events, ret>>

SpecWeekKey == InitWeekKey /\ [][WeekKeyCall]_vars

\* --------------------------------------------------------- computeLevelName
\* the levels computeLevelName is applied to: from well below 1 to well
\* above the length of the table
LevelValues == (0 - 12)..19
InitLevelName ==
  /\ InitStore
  /\ calc \in [x : LevelValues, y : LevelValues, lx : {{}}, ly : {{}}]

\* game.ts line 96, line 62: a caller takes the name of a level
ComputeLevelNameCall ==
  /\ calc.lx = {}
  /\ calc' = [calc EXCEPT !.lx = {computeLevelName(calc.x)},
                          !.ly = {computeLevelName(calc.y)}]
  /\ UNCHANGED <<now, stats, statsVer, xp, moments, reflections, badges, cards, pc, loc, nops, log, events, ret>>

SpecLevelName == InitLevelName /\ [][ComputeLevelNameCall]_vars

\* -------------------------------------------------- streaks from reflections
\* part_009 lines 66-95 and 105-116: the reflection document of day d, saved
\* with answers only ("open") or marked complete ("done")
ReflectionDoc(d, status) ==
  [support_answer |-> {"Maybe"}, reframe_answer |-> {"Neutral"},
   boundary_answer |-> IF status = "done" THEN {"No"} ELSE {},
   completed |-> status = "done", dateKey |-> {d},
   completedAt |-> IF status = "done" THEN {d * TicksPerDay} ELSE {}, momentId |-> {}]

\* the id of a second record of day d, stored under another document id
\* (game.ts:169 takes the date from the dateKey field before the id)
OtherId(d) == 0 - d

\* every history of daily reflections over the last MaxDays days and today,
\* with or without a second completed record of yesterday
InitStreak ==
  /\ now = StartTime
  /\ \/ stats = NoDoc /\ xp = NoFields
     \/ stats = BaseStats /\ xp = BaseEvents
  /\ \E status \in [(BaseDay - MaxDays)..BaseDay -> {"none", "open", "done"}] :
     \E dup \in SUBSET {BaseDay - 1} :
       reflections =
         [id \in {e \in DOMAIN status : status[e] # "none"} \cup {OtherId(d) : d \in dup} |->
            IF id \in DOMAIN status THEN ReflectionDoc(id, status[id])
            ELSE ReflectionDoc(OtherId(id), "done")]
  /\ statsVer = 0
  /\ moments = NoFields
  /\ calc = NoCalc
  /\ badges = NoFields
  /\ cards = NoCards
  /\ events = NoFields
  /\ ret = NoRets
  /\ pc = [s \in Sessions |-> "idle"]
  /\ loc = [s \in Sessions |-> IdleLoc]
  /\ nops = [s \in Sessions |-> 0]
  /\ log = [s \in Sessions |-> <<>>]

\* one session calling reconcileStatsFromData
NextStreak ==
  \/ Tick
  \/ EnsureGet("s1", "recon") \/ EnsureSet("s1") \/ ReconRead("s1") \/ ReconSet("s1")
SpecStreak == InitStreak /\ [][NextStreak]_vars

\* ------------------------------------------------- the moments collection
\* nothing in the application writes users/{uid}/moments; its records are
\* the input of reconcileStatsFromData (game.ts:143)
MomentIds == {"m1", "m2"}
MomentKinds == {"plain", "tagged", "noted", "felt"}
MomentDoc(c, kind) ==
  [createdAt |-> {c},
   tags |-> IF kind = "tagged" THEN 1 ELSE 0,
   note |-> kind = "noted",
   emotion |-> CASE kind = "tagged" -> {"Calm"}
                 [] kind = "noted" -> {"Hurt"}
                 [] kind = "felt" -> {"Calm"}
                 [] OTHER -> {}]
\* the instants of the days around the edge of the seven-day window, and today
MomentInstants ==
  {d * TicksPerDay + k : d \in {BaseDay - 7, BaseDay - 6, BaseDay - 5, BaseDay},
                         k \in 0..(TicksPerDay - 1)}

\* the established user with up to two moments, early or late on 2024-01-07
InitMoments ==
  /\ now \in {BaseDay * TicksPerDay, StartTime}
  /\ stats = BaseStats /\ xp = BaseEvents /\ reflections = BaseReflections
  /\ \E present \in SUBSET MomentIds :
     \E c \in [present -> MomentInstants], kind \in [present -> MomentKinds] :
       moments = [id \in present |-> MomentDoc(c[id], kind[id])]
  /\ statsVer = 0
  /\ calc = NoCalc
  /\ badges = NoFields
  /\ cards = NoCards
  /\ events = NoFields
  /\ ret = NoRets
  /\ pc = [s \in Sessions |-> "idle"]
  /\ loc = [s \in Sessions |-> IdleLoc]
  /\ nops = [s \in Sessions |-> 0]
  /\ log = [s \in Sessions |-> <<>>]

\* one session calling reconcileStatsFromData
NextMoments ==
  \/ Tick
  \/ EnsureGet("s1", "recon") \/ ReconRead("s1") \/ ReconSet("s1")
SpecMoments == InitMoments /\ [][NextMoments]_vars

\* ------------------------------------------------------------ the badges
\* part_007 lines 3-127: the catalog, in its order
BADGE_DEFINITIONS ==
  LET def(id, category, criteriaType, threshold, emotionType) ==
        [id |-> id, category |-> category, criteriaType |-> criteriaType,
         threshold |-> threshold, emotionType |-> emotionType]
  IN <<def("first_steps", "getting_started", "moments_logged", 1, ""),
       def("reflection_starter", "getting_started", "reflections_completed", 1, ""),
       def("three_in_a_row", "consistency", "reflections_completed", 3, ""),
       def("weekly_warrior", "consistency", "reflections_completed", 7, ""),
       def("depth_builder", "depth", "tags_added", 5, ""),
       def("detail_master", "depth", "tags_added", 20, ""),
       def("calm_finder", "emotion", "emotion_logged", 5, "Calm"),
       def("hard_truth", "emotion", "emotion_logged", 3, "Hurt"),
       def("joy_seeker", "emotion", "emotion_logged", 10, "Happy"),
       def("pattern_hunter", "insight", "patterns_viewed", 3, ""),
       def("streak_starter", "consistency", "streak_days", 3, ""),
       def("committed", "consistency", "streak_days", 7, "")>>

\* part_007 lines 129-131: the definition of an id, as a set: empty for none
getBadgeDefinition(badgeId) ==
  {BADGE_DEFINITIONS[i] : i \in {j \in DOMAIN BADGE_DEFINITIONS :
                                   BADGE_DEFINITIONS[j].id = badgeId}}

\* a snapshot of a badge document: {} when it does not exist
BadgeDoc(badgeId) == IF badgeId \in DOMAIN badges THEN {badges[badgeId]} ELSE {}

\* setDoc(ref, fields, {merge: true}) on a badge document
MergeBadge(badgeId, fields) ==
  [b \in (DOMAIN badges) \cup {badgeId} |->
     IF b = badgeId
     THEN Merge(IF b \in DOMAIN badges THEN badges[b] ELSE NoFields, fields)
     ELSE badges[b]]

BadgeProgressFromRecords(def, statsData, momentsSnap, reflectionsSnap) ==
  CASE def.criteriaType = "moments_logged" -> Cardinality(DOMAIN momentsSnap)
    [] def.criteriaType = "reflections_completed" ->
         Cardinality(Completed(reflectionsSnap))
    [] def.criteriaType = "tags_added" ->
         Cardinality({id \in DOMAIN momentsSnap : HasDepth(momentsSnap[id])})
    [] def.criteriaType = "emotion_logged" ->
         Cardinality({id \in DOMAIN momentsSnap :
                        Field(momentsSnap[id], "emotion", {}) = {def.emotionType}})
    [] def.criteriaType = "streak_days" -> Field(statsData, "streakDays", 0)
    [] def.criteriaType = "patterns_viewed" -> Field(statsData, "patternsViewed", 0)
    [] OTHER -> 0

\* game.ts lines 248-262 and 267-291: the progress value of a definition
BadgeProgress(def, statsData, momentsSnap, reflectionsSnap) ==
  CASE def.criteriaType = "moments_logged" -> Field(statsData, "momentsCount", 0)
    [] def.criteriaType = "reflections_completed" ->
         Cardinality({DateKeyOf(reflectionsSnap, id) : id \in Completed(reflectionsSnap)})
    [] def.criteriaType = "tags_added" ->
         Cardinality({id \in DOMAIN momentsSnap : HasDepth(momentsSnap[id])})
    [] def.criteriaType = "emotion_logged" ->
         Cardinality({id \in DOMAIN momentsSnap :
                        Field(momentsSnap[id], "emotion", {}) = {def.emotionType}})
    [] def.criteriaType = "streak_days" -> Field(statsData, "streakDays", 0)
    [] def.criteriaType = "patterns_viewed" -> Field(statsData, "patternsViewed", 0)
    [] OTHER -> 0

\* game.ts line 293
BadgeEarned(progressCurrent, target) == progressCurrent >= target /\ target > 0

\* game.ts lines 267 and 293-306: the fields reconcileBadges writes for a
\* definition; progressText is the pair shown as "current/target"
BadgeFields(def, statsData, momentsSnap, reflectionsSnap, t) ==
  LET target == def.threshold
      progressCurrent == BadgeProgress(def, statsData, momentsSnap, reflectionsSnap)
      earned == BadgeEarned(progressCurrent, target)
  IN [earned |-> earned, earnedAt |-> IF earned THEN {t} ELSE {},
      progressCurrent |-> progressCurrent, progressTarget |-> target,
      progressText |-> <<Min(progressCurrent, target), target>>,
      category |-> def.category]

\* game.ts lines 314-340 start here; the caller passes today's date key
QuestsLoc(dateKey) == [IdleLoc EXCEPT !.op = "quests", !.dateKey = dateKey]

\* part_010 lines 113-124: reconcileBadges has returned; its caller is done,
\* or is the reconcile effect, which goes on to reconcileDailyQuests
BadgesReturn(s) ==
  IF loc[s].caller = "effect"
  THEN /\ pc' = [pc EXCEPT ![s] = "quests_reads"]
       /\ loc' = [loc EXCEPT ![s] = QuestsLoc(loc[s].dateKey)]
  ELSE EndCall(s)

\* game.ts lines 238-240: getDoc of the aggregate; a missing one returns.
\* caller is "effect" for the reconcile effect of part_010 (its todayKey is
\* fixed at line 116), "none" for a direct call
BadgesGet(s, caller) ==
  /\ pc[s] = "idle"
  /\ nops[s] < MaxCalls
  /\ nops' = [nops EXCEPT ![s] = @ + 1]
  /\ IF stats.exists
     THEN /\ pc' = [pc EXCEPT ![s] = "badges_reads"]
          /\ loc' = [loc EXCEPT ![s] =
                       [IdleLoc EXCEPT !.op = "badges", !.caller = caller,
                                       !.dateKey = getCurrentDateKey(now),
                                       !.statsSeen = stats]]
     ELSE IF caller = "effect"
          THEN /\ pc' = [pc EXCEPT ![s] = "quests_reads"]
               /\ loc' = [loc EXCEPT ![s] = QuestsLoc(getCurrentDateKey(now))]
          ELSE EndCall(s)
  /\ UNCHANGED <<now, stats, statsVer, xp, moments, reflections, badges, cards, calc, log, events, ret>>

\* game.ts lines 243-246: one of the two getDocs of the Promise.all resolves;
\* when both have, the loop of line 266 issues the writes, in catalog order
BadgesRead(s) ==
  /\ pc[s] = "badges_reads"
  /\ \E which \in {"moments", "reflections"} :
       /\ IF which = "moments" THEN loc[s].momentsSeen = {} ELSE loc[s].reflectionsSeen = {}
       /\ LET m == IF which = "moments" THEN {moments} ELSE loc[s].momentsSeen
              r == IF which = "reflections" THEN {reflections} ELSE loc[s].reflectionsSeen
          IN /\ loc' = [loc EXCEPT ![s].momentsSeen = m, ![s].reflectionsSeen = r,
                                   ![s].next = IF m # {} /\ r # {} THEN 1 ELSE 0]
             /\ pc' = [pc EXCEPT ![s] = IF m # {} /\ r # {} THEN "badges_write"
                                        ELSE "badges_reads"]
  /\ UNCHANGED <<now, stats, statsVer, xp, moments, reflections, badges, cards, calc, nops, log, events, ret>>

\* game.ts lines 295-311: the next setDoc of the batch is applied, or, where
\* writes may fail, is rejected (one write of a call at most; failed holds
\* its badge).  After the last one the Promise.all of line
\* 311 has settled: reconcileBadges returns, or, a write having been
\* rejected, rejects; nothing catches that in reconcileBadges or in the
\* reconcile effect (part_010 lines 114-123), which ends there
BadgesWrite(s, MayFail) ==
  /\ pc[s] = "badges_write"
  /\ \E ok \in IF MayFail /\ loc[s].failed = {} THEN BOOLEAN ELSE {TRUE} :
       LET def == BADGE_DEFINITIONS[loc[s].next]
           m == CHOOSE x \in loc[s].momentsSeen : TRUE
           r == CHOOSE x \in loc[s].reflectionsSeen : TRUE
           failed == IF ok THEN loc[s].failed ELSE loc[s].failed \cup {def.id}
       IN /\ badges' = IF ok
                       THEN MergeBadge(def.id, BadgeFields(def, loc[s].statsSeen.data, m, r, now))
                       ELSE badges
          /\ IF loc[s].next < Len(BADGE_DEFINITIONS)
             THEN /\ loc' = [loc EXCEPT ![s].next = @ + 1, ![s].failed = failed]
                  /\ UNCHANGED pc
             ELSE IF failed # {} THEN EndCall(s) ELSE BadgesReturn(s)
  /\ UNCHANGED <<now, stats, statsVer, xp, moments, reflections, cards, calc, nops, log, events, ret>>

\* ------------------------------------------------ awardBadge, checkAndAwardBadges
\* badges.native.ts lines 71-77: the next definition from index i on that
\* checkAndAwardBadges awards for, 0 for none
NextToAward(check, i) ==
  LET hits == {j \in i..Len(BADGE_DEFINITIONS) :
                 /\ BADGE_DEFINITIONS[j].criteriaType = check.criteriaType
                 /\ BADGE_DEFINITIONS[j].emotionType \in {"", check.emotionType}
                 /\ check.currentValue >= BADGE_DEFINITIONS[j].threshold}
  IN IF hits = {} THEN 0 ELSE CHOOSE j \in hits : \A k \in hits : j <= k

\* badges.native.ts lines 41, 46, 60: what awardBadge returns, kept with the
\* call it belongs to and its arguments
BadgeResult(call, userId, badgeId, success, alreadyEarned) ==
  {[call |-> call, userId |-> userId, badgeId |-> badgeId, success |-> success,
    alreadyEarned |-> alreadyEarned,
    badge |-> IF success THEN getBadgeDefinition(badgeId) ELSE {}]}

AlreadyEarnedNever(badgeId) == FALSE

\* badges.native.ts line 45: snap.exists() && snap.data()?.earned
AlreadyEarned(badgeId) ==
  BadgeDoc(badgeId) # {} /\ Field(badges[badgeId], "earned", FALSE)

\* awardBadge has returned: to checkAndAwardBadges, which goes on with the
\* catalog (badges.native.ts lines 71-78), or to a caller that is done
AwardBadgeReturns(s) ==
  LET n == IF loc[s].op = "check" THEN NextToAward(loc[s].check, loc[s].next + 1) ELSE 0
  IN IF n = 0 THEN EndCall(s)
     ELSE /\ pc' = [pc EXCEPT ![s] = "badge_get"]
          /\ loc' = [loc EXCEPT ![s].next = n, ![s].badgeId = BADGE_DEFINITIONS[n].id]

\* badges.native.ts lines 34-42: awardBadge; an unknown badge returns
AwardBadgeCall(s, Ids) ==
  /\ pc[s] = "idle"
  /\ nops[s] < MaxCalls
  /\ nops' = [nops EXCEPT ![s] = @ + 1]
  /\ \E in \in Ids :
       LET userId == in[1]
           badgeId == in[2]
       IN IF getBadgeDefinition(badgeId) = {} \/ userId = ""
          THEN /\ ret' = [ret EXCEPT ![s] = BadgeResult(nops[s] + 1, userId, badgeId, FALSE, FALSE)]
               /\ UNCHANGED <<pc, loc>>
          ELSE /\ pc' = [pc EXCEPT ![s] = "badge_get"]
               /\ loc' = [loc EXCEPT ![s] = [IdleLoc EXCEPT !.op = "awardBadge",
                                                             !.uid = userId,
                                                             !.badgeId = badgeId]]
               /\ UNCHANGED ret
  /\ UNCHANGED <<now, stats, statsVer, xp, moments, reflections, badges, cards, calc, log, events>>

\* badges.native.ts lines 63-78: checkAndAwardBadges up to its first awardBadge
CheckCall(s, Checks) ==
  /\ pc[s] = "idle"
  /\ nops[s] < MaxCalls
  /\ nops' = [nops EXCEPT ![s] = @ + 1]
  /\ \E check \in Checks :
       LET n == NextToAward(check, 1)
       IN IF n = 0
          THEN UNCHANGED <<pc, loc>>
          ELSE /\ pc' = [pc EXCEPT ![s] = "badge_get"]
               /\ loc' = [loc EXCEPT ![s] =
                            [IdleLoc EXCEPT !.op = "check", !.uid = "u1",
                                            !.check = check, !.next = n,
                                            !.badgeId = BADGE_DEFINITIONS[n].id]]
  /\ UNCHANGED <<now, stats, statsVer, xp, moments, reflections, badges, cards, calc, log, events, ret>>

\* badges.native.ts lines 43-47: getDoc; a badge already earned returns
BadgeGet(s) ==
  /\ pc[s] = "badge_get"
  /\ IF AlreadyEarned(loc[s].badgeId)
     THEN /\ AwardBadgeReturns(s)
          /\ ret' = [ret EXCEPT ![s] = BadgeResult(nops[s], loc[s].uid, loc[s].badgeId, TRUE, TRUE)]
     ELSE /\ pc' = [pc EXCEPT ![s] = "badge_set"]
          /\ UNCHANGED <<loc, ret>>
  /\ UNCHANGED <<now, stats, statsVer, xp, moments, reflections, badges, cards, calc, nops, log, events>>

\* badges.native.ts lines 48-60: setDoc with merge
BadgeSet(s) ==
  /\ pc[s] = "badge_set"
  /\ LET def == CHOOSE d \in getBadgeDefinition(loc[s].badgeId) : TRUE
     IN badges' = MergeBadge(def.id,
                    [earned |-> TRUE, earnedAt |-> {now},
                     progressCurrent |-> def.threshold, progressTarget |-> def.threshold,
                     progressText |-> <<def.threshold, def.threshold>>,
                     category |-> def.category])
  /\ AwardBadgeReturns(s)
  /\ ret' = [ret EXCEPT ![s] = BadgeResult(nops[s], loc[s].uid, loc[s].badgeId, TRUE, FALSE)]
  /\ UNCHANGED <<now, stats, statsVer, xp, moments, reflections, cards, calc, nops, log, events>>

\* ---------------------------------------------------- reconcileDailyQuests
\* the date keys of the days of a run, as getCurrentDateKey formats them
DateString(d) ==
  CASE d = BaseDay -> "2024-01-07"
    [] d = BaseDay + 1 -> "2024-01-08"
    [] d = BaseDay + 2 -> "2024-01-09"
    [] OTHER -> "2024-01-10"

QuestGrantsUnconditional(momentsSnap, reflectionsSnap, dateKey) ==
  <<[eventId |-> "DAILY_REFLECTIONS_COMPLETED_" \o DateString(dateKey), amount |-> 15],
    [eventId |-> "MOMENT_COMPLETED_" \o DateString(dateKey), amount |-> 10]>>

\* game.ts lines 322-339: the grants, in the order they are made
QuestGrants(momentsSnap, reflectionsSnap, dateKey) ==
  LET hasMomentToday ==
        \E id \in DOMAIN momentsSnap :
          \E c \in Field(momentsSnap[id], "createdAt", {}) : DayOf(c) = dateKey
      reflectionsCompleted ==
        dateKey \in DOMAIN reflectionsSnap
          /\ Field(reflectionsSnap[dateKey], "completed", FALSE)
  IN (IF reflectionsCompleted
      THEN <<[eventId |-> "DAILY_REFLECTIONS_COMPLETED_" \o DateString(dateKey),
              amount |-> 15]>>
      ELSE <<>>)
     \o (IF hasMomentToday
         THEN <<[eventId |-> "MOMENT_COMPLETED_" \o DateString(dateKey), amount |-> 10]>>
         ELSE <<>>)

\* game.ts lines 322-327: the snapshot is ordered by createdAt descending,
\* values that are no timestamps first; createdAt.toISOString() of an
\* Invalid Date throws a RangeError inside some(), which nothing catches
QuestsThrows(momentsSnap) ==
  \E id \in DOMAIN momentsSnap : Field(momentsSnap[id], "createdAt", {}) = {InvalidDate}

\* game.ts line 314: the call, with today's date key as part_010 line 116
\* computes it
QuestsCall(s) ==
  /\ pc[s] = "idle"
  /\ nops[s] < MaxCalls
  /\ nops' = [nops EXCEPT ![s] = @ + 1]
  /\ pc' = [pc EXCEPT ![s] = "quests_reads"]
  /\ loc' = [loc EXCEPT ![s] = QuestsLoc(getCurrentDateKey(now))]
  /\ UNCHANGED <<now, stats, statsVer, xp, moments, reflections, badges, cards, calc, log, events, ret>>

\* game.ts lines 315-339: one of the two reads of the Promise.all resolves;
\* when both have, the conditions are evaluated and the first grant starts
QuestsRead(s) ==
  /\ pc[s] = "quests_reads"
  /\ \E which \in {"moments", "reflections"} :
       /\ IF which = "moments" THEN loc[s].momentsSeen = {} ELSE loc[s].reflectionsSeen = {}
       /\ LET m == IF which = "moments" THEN {moments} ELSE loc[s].momentsSeen
              r == IF which = "reflections" THEN {reflections} ELSE loc[s].reflectionsSeen
          IN IF m # {} /\ r # {}
             THEN LET grants == QuestGrants(CHOOSE x \in m : TRUE, CHOOSE x \in r : TRUE,
                                            loc[s].dateKey)
                  IN IF grants = <<>> \/ QuestsThrows(CHOOSE x \in m : TRUE)
                     THEN EndCall(s)
                     ELSE /\ pc' = [pc EXCEPT ![s] = "tx_get_xp"]
                          /\ loc' = [loc EXCEPT ![s] =
                                       StartAward(Head(grants), Tail(grants), loc[s].dateKey)]
             ELSE /\ loc' = [loc EXCEPT ![s].momentsSeen = m, ![s].reflectionsSeen = r]
                  /\ UNCHANGED pc
  /\ UNCHANGED <<now, stats, statsVer, xp, moments, reflections, badges, cards, calc, nops, log, events, ret>>

\* ------------------------------------------------------ specifications
\* histories of completed reflections: none, today, the three days to today,
\* the two days before today, and yesterday with a second record
BadgeHistories ==
  {{}, {BaseDay}, {BaseDay - 2, BaseDay - 1, BaseDay}, {BaseDay - 2, BaseDay - 1},
   {BaseDay - 1, OtherId(BaseDay - 1)}}
\* moments: none, one, two of which one is tagged, three with a note
BadgeMoments ==
  {NoFields,
   [id \in {"m1"} |-> MomentDoc(BaseDay * TicksPerDay, "plain")],
   [id \in {"m1", "m2"} |->
      MomentDoc(BaseDay * TicksPerDay, IF id = "m1" THEN "tagged" ELSE "plain")],
   [id \in {"m1", "m2", "m3"} |-> MomentDoc((BaseDay - 1) * TicksPerDay, "noted")]}

\* a user with one of those histories, with no aggregate yet or with the
\* aggregate as reconcileStatsFromData leaves it
InitBadges ==
  /\ now = StartTime
  /\ \E h \in BadgeHistories :
       reflections = [id \in h |-> ReflectionDoc(IF id < 0 THEN OtherId(id) ELSE id, "done")]
  /\ moments \in BadgeMoments
  /\ \/ stats = NoDoc /\ xp = NoFields
     \/ /\ stats = Doc(Merge(BaseStats.data, ReconUpdates(moments, reflections, now)))
        /\ xp = BaseEvents
  /\ statsVer = 0
  /\ calc = NoCalc
  /\ badges = NoFields
  /\ cards = NoCards
  /\ events = NoFields
  /\ ret = NoRets
  /\ pc = [s \in Sessions |-> "idle"]
  /\ loc = [s \in Sessions |-> IdleLoc]
  /\ nops = [s \in Sessions |-> 0]
  /\ log = [s \in Sessions |-> <<>>]

\* what the callers of awardBadge and checkAndAwardBadges pass
AwardBadgeInputs ==
  {<<"u1", "streak_starter">>, <<"u1", "no_such_badge">>, <<"", "streak_starter">>}
CheckInputs ==
  {[criteriaType |-> "streak_days", currentValue |-> 3, emotionType |-> ""],
   [criteriaType |-> "streak_days", currentValue |-> 7, emotionType |-> ""],
   [criteriaType |-> "emotion_logged", currentValue |-> 2, emotionType |-> "Calm"]}

\* one session reconciling the aggregate, the other running the badge
\* operations
NextBadges ==
  \/ EnsureGet("s1", "recon") \/ EnsureSet("s1") \/ ReconRead("s1") \/ ReconSet("s1")
  \/ BadgesGet("s2", "none") \/ BadgesRead("s2") \/ BadgesWrite("s2", FALSE)
  \/ AwardBadgeCall("s2", AwardBadgeInputs) \/ CheckCall("s2", CheckInputs)
  \/ BadgeGet("s2") \/ BadgeSet("s2")
SpecBadges == InitBadges /\ [][NextBadges]_vars

\* the same as the days pass
NextBadgeDays == Tick \/ NextBadges
SpecBadgeDays == InitBadges /\ [][NextBadgeDays]_vars

\* the established user; one session running the reconcile effect from
\* reconcileBadges on, with writes that may be rejected
InitEffect ==
  /\ InitBadges
  /\ stats.exists
NextEffect ==
  \/ Tick
  \/ BadgesGet("s1", "effect") \/ BadgesRead("s1") \/ BadgesWrite("s1", TRUE)
  \/ QuestsRead("s1") \/ TxGetXp("s1") \/ TxGetStats("s1") \/ TxCommit("s1")
SpecEffect == InitEffect /\ [][NextEffect]_vars

\* moments for the daily quests: none, one of today, one of yesterday, two
\* of today
QuestMoments ==
  {NoFields,
   [id \in {"m1"} |-> MomentDoc(BaseDay * TicksPerDay, "plain")],
   [id \in {"m1"} |-> MomentDoc((BaseDay - 1) * TicksPerDay, "plain")],
   [id \in {"m1", "m2"} |-> MomentDoc(BaseDay * TicksPerDay, "plain")]}

\* a new user or the established one, today's reflection absent, open or
\* completed
InitQuests ==
  /\ now = StartTime
  /\ \/ stats = NoDoc /\ xp = NoFields
     \/ stats = BaseStats /\ xp = BaseEvents
  /\ \E status \in {"none", "open", "done"} :
       reflections = [id \in IF status = "none" THEN {} ELSE {BaseDay} |->
                        ReflectionDoc(id, status)]
  /\ moments \in QuestMoments
  /\ statsVer = 0
  /\ calc = NoCalc
  /\ badges = NoFields
  /\ cards = NoCards
  /\ events = NoFields
  /\ ret = NoRets
  /\ pc = [s \in Sessions |-> "idle"]
  /\ loc = [s \in Sessions |-> IdleLoc]
  /\ nops = [s \in Sessions |-> 0]
  /\ log = [s \in Sessions |-> <<>>]

\* the sessions calling reconcileDailyQuests as the days pass
NextQuests ==
  \/ Tick
  \/ \E s \in Sessions :
       QuestsCall(s) \/ QuestsRead(s) \/ TxGetXp(s) \/ TxGetStats(s) \/ TxCommit(s)
SpecQuests == InitQuests /\ [][NextQuests]_vars

\* ------------------------------------------------- the DailyReflections card
AnswerFields == {"support_answer", "reframe_answer", "boundary_answer"}
\* the choice a user taps for a question
Choice(field) ==
  CASE field = "support_answer" -> "Maybe"
    [] field = "reframe_answer" -> "Neutral"
    [] OTHER -> "No"

\* setDoc(ref, fields, {merge: true}) on the reflection document of a day
MergeReflection(d, fields) ==
  [id \in (DOMAIN reflections) \cup {d} |->
     IF id = d
     THEN Merge(IF id \in DOMAIN reflections THEN reflections[id] ELSE NoFields, fields)
     ELSE reflections[id]]

\* part_009 lines 99-103: isComplete, from the component's state
isComplete(reflection) ==
  \E r \in reflection : \A f \in AnswerFields : Field(r, f, {}) # {}

\* part_009 lines 35-59: the component mounts and its load effect starts
CardMount(s) ==
  /\ pc[s] = "idle"
  /\ ~cards[s].mounted
  /\ pc' = [pc EXCEPT ![s] = "card_load"]
  /\ loc' = [loc EXCEPT ![s] = [IdleLoc EXCEPT !.op = "load_card",
                                               !.dateKey = getCurrentDateKey(now)]]
  /\ UNCHANGED <<now, stats, statsVer, xp, moments, reflections, badges, cards, calc, nops, log, events, ret>>

\* part_009 lines 46-51: getDoc resolves and the state is set; the effects
\* that depend on it run after the render
CardLoaded(s) ==
  /\ pc[s] = "card_load"
  /\ cards' = [cards EXCEPT ![s] =
                 [mounted |-> TRUE, todayKey |-> loc[s].dateKey,
                  reflection |-> IF loc[s].dateKey \in DOMAIN reflections
                                 THEN {reflections[loc[s].dateKey]} ELSE {},
                  effect |-> TRUE]]
  /\ EndCall(s)
  /\ UNCHANGED <<now, stats, statsVer, xp, moments, reflections, badges, calc, nops, log, events, ret>>

\* part_009 lines 67-80: the user taps a choice; the buttons are disabled
\* while a save is under way
SaveCall(s) ==
  /\ pc[s] = "idle"
  /\ cards[s].mounted /\ ~cards[s].effect
  /\ nops[s] < MaxCalls
  /\ nops' = [nops EXCEPT ![s] = @ + 1]
  /\ \E field \in AnswerFields :
       loc' = [loc EXCEPT ![s] = [IdleLoc EXCEPT !.op = "save", !.field = field,
                                                 !.dateKey = getCurrentDateKey(now)]]
  /\ pc' = [pc EXCEPT ![s] = "card_save"]
  /\ UNCHANGED <<now, stats, statsVer, xp, moments, reflections, badges, cards, calc, log, events, ret>>

\* part_009 lines 80-91: the setDoc with merge, then setReflection
SaveSet(s) ==
  /\ pc[s] = "card_save"
  /\ reflections' =
       MergeReflection(loc[s].dateKey,
         (loc[s].field :> {Choice(loc[s].field)})
           @@ [completed |-> FALSE, dateKey |-> {loc[s].dateKey}, momentId |-> {}])
  /\ cards' = [cards EXCEPT
                 ![s].reflection =
                   {Merge(IF @ = {} THEN NoFields ELSE CHOOSE r \in @ : TRUE,
                          (loc[s].field :> {Choice(loc[s].field)}))},
                 ![s].effect = TRUE]
  /\ EndCall(s)
  /\ UNCHANGED <<now, stats, statsVer, xp, moments, badges, calc, nops, log, events, ret>>

\* part_009 lines 105-108: the markComplete effect runs after a render that
\* changed the state; it returns unless the state holds three answers
MarkEffect(s) ==
  /\ pc[s] = "idle"
  /\ cards[s].effect
  /\ cards' = [cards EXCEPT ![s].effect = FALSE]
  /\ IF isComplete(cards[s].reflection)
     THEN /\ pc' = [pc EXCEPT ![s] = "card_mark"]
          /\ loc' = [loc EXCEPT ![s] = [IdleLoc EXCEPT !.op = "mark",
                                                       !.dateKey = getCurrentDateKey(now)]]
     ELSE UNCHANGED <<pc, loc>>
  /\ UNCHANGED <<now, stats, statsVer, xp, moments, reflections, badges, calc, nops, log, events, ret>>

\* part_009 line 110: setDoc with merge
MarkSet(s) ==
  /\ pc[s] = "card_mark"
  /\ reflections' =
       MergeReflection(loc[s].dateKey,
         [completed |-> TRUE, completedAt |-> {now}, dateKey |-> {loc[s].dateKey}])
  /\ pc' = [pc EXCEPT ![s] = "mark_ensure"]
  /\ UNCHANGED <<now, stats, statsVer, xp, moments, badges, cards, calc, loc, nops, log, events, ret>>

\* part_009 line 112: the call of awardXpOnce
MarkAward(s) ==
  [StartAward([eventId |-> "DAILY_REFLECTIONS_COMPLETED_" \o DateString(loc[s].dateKey),
               amount |-> 15], <<>>, loc[s].dateKey) EXCEPT !.op = "mark"]

\* part_009 line 111, game.ts lines 51-54: ensureStatsDoc's getDoc
MarkEnsureGet(s) ==
  /\ pc[s] = "mark_ensure"
  /\ IF stats.exists
     THEN /\ pc' = [pc EXCEPT ![s] = "tx_get_xp"]
          /\ loc' = [loc EXCEPT ![s] = MarkAward(s)]
     ELSE /\ pc' = [pc EXCEPT ![s] = "mark_ensure_set"]
          /\ loc' = [loc EXCEPT ![s].weekKey = getCurrentWeekKey(now)]
  /\ UNCHANGED <<now, stats, statsVer, xp, moments, reflections, badges, cards, calc, nops, log, events, ret>>

\* game.ts lines 55-68: ensureStatsDoc's setDoc, without merge
MarkEnsureSet(s) ==
  /\ pc[s] = "mark_ensure_set"
  /\ WriteStats(Doc(NewStatsDoc(loc[s].weekKey)))
  /\ pc' = [pc EXCEPT ![s] = "tx_get_xp"]
  /\ loc' = [loc EXCEPT ![s] = MarkAward(s)]
  /\ UNCHANGED <<now, xp, moments, reflections, badges, cards, calc, nops, log, events, ret>>

\* part_009 lines 236-240: the user taps the edit button
ResetCall(s) ==
  /\ pc[s] = "idle"
  /\ cards[s].mounted /\ ~cards[s].effect
  /\ nops[s] < MaxCalls
  /\ nops' = [nops EXCEPT ![s] = @ + 1]
  /\ pc' = [pc EXCEPT ![s] = "card_reset"]
  /\ loc' = [loc EXCEPT ![s] = [IdleLoc EXCEPT !.op = "reset",
                                               !.dateKey = getCurrentDateKey(now)]]
  /\ UNCHANGED <<now, stats, statsVer, xp, moments, reflections, badges, cards, calc, log, events, ret>>

\* part_009 lines 241-257: the setDoc with merge, then setReflection
ResetSet(s) ==
  /\ pc[s] = "card_reset"
  /\ reflections' =
       MergeReflection(loc[s].dateKey,
         [support_answer |-> {}, reframe_answer |-> {}, boundary_answer |-> {},
          completed |-> FALSE, completedAt |-> {}])
  /\ cards' = [cards EXCEPT
                 ![s].reflection = {[support_answer |-> {}, reframe_answer |-> {},
                                     boundary_answer |-> {}, completed_at |-> {}]},
                 ![s].effect = TRUE]
  /\ EndCall(s)
  /\ UNCHANGED <<now, stats, statsVer, xp, moments, badges, calc, nops, log, events, ret>>

CardStep(s) ==
  \/ CardMount(s) \/ CardLoaded(s)
  \/ SaveCall(s) \/ SaveSet(s)
  \/ MarkEffect(s) \/ MarkSet(s) \/ MarkEnsureGet(s) \/ MarkEnsureSet(s)
  \/ TxGetXp(s) \/ TxGetStats(s) \/ TxCommit(s)
  \/ ResetCall(s) \/ ResetSet(s)

\* the user's cards, on one or two screens or devices, as the days pass
NextCards == Tick \/ \E s \in Sessions : CardStep(s)
SpecCards == Init /\ [][NextCards]_vars

\* ------------------------------------------ the capture flow (handleSubmit)
\* firebaseWrites.native.ts lines 109-110: doc(eventsCol) makes a new id
EventIds == <<"e2", "e3", "e4", "e5">>
NewEventId ==
  EventIds[CHOOSE i \in 1..Len(EventIds) :
             /\ EventIds[i] \notin DOMAIN events
             /\ \A j \in 1..(i - 1) : EventIds[j] \in DOMAIN events]

\* firebaseWrites.native.ts lines 112-131: the event document, of type moment
EventDoc(kind, t) ==
  [type |-> "moment", startAt |-> {t}, createdAt |-> {t},
   tags |-> IF kind = "tagged" THEN 1 ELSE 0, primaryEmotion |-> {"Calm"},
   emotionIntensity |-> 3]

\* EventCapture.native.tsx lines 364-392: the user submits a valid form, with
\* or without a tag
CaptureCall(s) ==
  /\ pc[s] = "idle"
  /\ nops[s] < MaxCalls
  /\ \E i \in 1..Len(EventIds) : EventIds[i] \notin DOMAIN events
  /\ nops' = [nops EXCEPT ![s] = @ + 1]
  /\ \E kind \in {"plain", "tagged"} :
       loc' = [loc EXCEPT ![s] = [IdleLoc EXCEPT !.op = "capture", !.uid = "u1",
                                                 !.field = kind]]
  /\ pc' = [pc EXCEPT ![s] = "capture_event"]
  /\ UNCHANGED <<now, stats, statsVer, xp, moments, reflections, badges, cards, calc, log, events, ret>>

\* firebaseWrites.native.ts lines 107-131: setDoc of users/u1/events/<id>
CaptureEvent(s) ==
  /\ pc[s] = "capture_event"
  /\ LET id == NewEventId
     IN /\ events' = [e \in (DOMAIN events) \cup {id} |->
                        IF e = id THEN EventDoc(loc[s].field, now) ELSE events[e]]
        /\ loc' = [loc EXCEPT ![s].badgeId = id]
  /\ pc' = [pc EXCEPT ![s] = "capture_ensure"]
  /\ UNCHANGED <<now, stats, statsVer, xp, moments, reflections, badges, cards, calc, nops, log, ret>>

\* EventCapture.native.tsx line 406, game.ts lines 51-54: ensureStatsDoc's getDoc
CaptureEnsureGet(s) ==
  /\ pc[s] = "capture_ensure"
  /\ IF stats.exists
     THEN /\ pc' = [pc EXCEPT ![s] = "capture_update"]
          /\ UNCHANGED loc
     ELSE /\ pc' = [pc EXCEPT ![s] = "capture_ensure_set"]
          /\ loc' = [loc EXCEPT ![s].weekKey = getCurrentWeekKey(now)]
  /\ UNCHANGED <<now, stats, statsVer, xp, moments, reflections, badges, cards, calc, nops, log, events, ret>>

\* game.ts lines 55-68: ensureStatsDoc's setDoc, without merge
CaptureEnsureSet(s) ==
  /\ pc[s] = "capture_ensure_set"
  /\ WriteStats(Doc(NewStatsDoc(loc[s].weekKey)))
  /\ pc' = [pc EXCEPT ![s] = "capture_update"]
  /\ UNCHANGED <<now, xp, moments, reflections, badges, cards, calc, loc, nops, log, events, ret>>

\* EventCapture.native.tsx lines 408-420: the grants handleSubmit makes: 10 XP
\* for the moment, and 5 XP more when it has two depth signals (a tag and
\* the emotion intensity)
CaptureGrants(s) ==
  <<[eventId |-> "MOMENT_COMPLETED_" \o loc[s].badgeId, amount |-> 10]>>
    \o (IF loc[s].field = "tagged"
        THEN <<[eventId |-> "DEPTH_BONUS_" \o loc[s].badgeId, amount |-> 5]>>
        ELSE <<>>)

\* EventCapture.native.tsx lines 407-412: updateDoc with increment(1) and the
\* server time, then the first awardXpOnce
CaptureUpdate(s) ==
  /\ pc[s] = "capture_update"
  /\ WriteStats(Doc(Merge(stats.data,
                          [momentsCount |-> Field(stats.data, "momentsCount", 0) + 1,
                           lastMomentAt |-> {now}])))
  /\ pc' = [pc EXCEPT ![s] = "tx_get_xp"]
  /\ loc' = [loc EXCEPT ![s] =
               [StartAward(Head(CaptureGrants(s)), Tail(CaptureGrants(s)),
                           getCurrentDateKey(now))
                  EXCEPT !.op = "capture", !.badgeId = loc[s].badgeId]]
  /\ UNCHANGED <<now, xp, moments, reflections, badges, cards, calc, nops, log, events, ret>>

CaptureStep(s) ==
  \/ CaptureCall(s) \/ CaptureEvent(s) \/ CaptureEnsureGet(s) \/ CaptureEnsureSet(s)
  \/ CaptureUpdate(s) \/ TxGetXp(s) \/ TxGetStats(s) \/ TxCommit(s)

\* the events the established user saved through the capture flow
BaseCaptured == [e \in {"e0", "e1"} |-> EventDoc("plain", BaseDay * TicksPerDay)]

\* a new user or the established one; nothing has written users/u1/moments
InitCapture ==
  /\ now = StartTime
  /\ \/ stats = NoDoc /\ xp = NoFields /\ reflections = NoFields /\ events = NoFields
     \/ /\ stats = BaseStats /\ xp = BaseEvents /\ reflections = BaseReflections
        /\ events = BaseCaptured
  /\ moments = NoFields
  /\ statsVer = 0
  /\ calc = NoCalc
  /\ badges = NoFields
  /\ cards = NoCards
  /\ ret = NoRets
  /\ pc = [s \in Sessions |-> "idle"]
  /\ loc = [s \in Sessions |-> IdleLoc]
  /\ nops = [s \in Sessions |-> 0]
  /\ log = [s \in Sessions |-> <<>>]

\* one session saving moments and running reconcileStatsFromData, the other
\* running reconcileStatsFromData and reconcileBadges
NextCapture ==
  \/ Tick
  \/ CaptureStep("s1")
  \/ EnsureGet("s1", "recon") \/ EnsureSet("s1") \/ ReconRead("s1") \/ ReconSet("s1")
  \/ EnsureGet("s2", "recon") \/ EnsureSet("s2") \/ ReconRead("s2") \/ ReconSet("s2")
  \/ BadgesGet("s2", "none") \/ BadgesRead("s2") \/ BadgesWrite("s2", FALSE)
SpecCapture == InitCapture /\ [][NextCapture]_vars

\* moments of which one may have a createdAt that is no date: both valid,
\* the malformed one before or after a valid one in the walk, or alone
MalformedMoments ==
  {[id \in {"m1", "m2"} |-> MomentDoc(BaseDay * TicksPerDay + (IF id = "m1" THEN 0 ELSE 1),
                                      "plain")],
   [id \in {"m1", "m2"} |-> MomentDoc(IF id = "m1" THEN InvalidDate
                                      ELSE BaseDay * TicksPerDay, "plain")],
   [id \in {"m1", "m2"} |-> MomentDoc(IF id = "m2" THEN InvalidDate
                                      ELSE BaseDay * TicksPerDay, "plain")],
   [id \in {"m1"} |-> MomentDoc(InvalidDate, "plain")]}

\* a user with such moments; one session runs reconcileStatsFromData, the
\* other reconcileDailyQuests
InitMalformed ==
  /\ now = StartTime
  /\ \/ stats = NoDoc /\ xp = NoFields /\ reflections = NoFields
     \/ stats = BaseStats /\ xp = BaseEvents /\ reflections = BaseReflections
  /\ moments \in MalformedMoments
  /\ statsVer = 0
  /\ calc = NoCalc
  /\ badges = NoFields
  /\ cards = NoCards
  /\ events = NoFields
  /\ ret = NoRets
  /\ pc = [s \in Sessions |-> "idle"]
  /\ loc = [s \in Sessions |-> IdleLoc]
  /\ nops = [s \in Sessions |-> 0]
  /\ log = [s \in Sessions |-> <<>>]
NextMalformed ==
  \/ Tick
  \/ EnsureGet("s1", "recon") \/ EnsureSet("s1") \/ ReconRead("s1") \/ ReconSet("s1")
  \/ QuestsCall("s2") \/ QuestsRead("s2") \/ TxGetXp("s2") \/ TxGetStats("s2") \/ TxCommit("s2")
SpecMalformed == InitMalformed /\ [][NextMalformed]_vars

\* a user whose reflection of today is open or completed; one session shows
\* the DailyReflections card while another runs reconcileDailyQuests
InitDaily ==
  /\ InitQuests
  /\ moments = NoFields
  /\ BaseDay \in DOMAIN reflections
NextDaily ==
  \/ Tick
  \/ CardStep("s1")
  \/ QuestsCall("s2") \/ QuestsRead("s2") \/ TxGetXp("s2") \/ TxGetStats("s2") \/ TxCommit("s2")
SpecDaily == InitDaily /\ [][NextDaily]_vars

\* ================================================================ claims
AllTimeXP == Field(stats.data, "allTimeXP", 0)

RECURSIVE XpSum(_, _)
XpSum(evs, keys) ==
  IF keys = {} THEN 0
  ELSE LET k == CHOOSE x \in keys : TRUE
       IN evs[k].amount + XpSum(evs, keys \ {k})

\* the XP the ledger held before any call of the run
InitXP == XpSum(xp, DOMAIN xp \cap DOMAIN BaseEvents)

\* the calls that have ended: <<session, position in its log>>
Ended == {<<s, i>> : s \in Sessions, i \in 1..MaxCalls + 1} \cap
           {c \in Sessions \X (1..MaxCalls + 1) : c[2] <= Len(log[c[1]])}
Entry(c) == log[c[1]][c[2]]
AwardedFor(k) == {c \in Ended : Entry(c).eventId = k /\ Entry(c).awarded}

RECURSIVE AmountSum(_)
AmountSum(calls) ==
  IF calls = {} THEN 0
  ELSE LET c == CHOOSE x \in calls : TRUE
       IN Entry(c).amount + AmountSum(calls \ {c})

ValidEntry(e) == e.uid # "" /\ e.eventId # "" /\ e.amount > 0
SameCall(e, f) == e.uid = f.uid /\ e.eventId = f.eventId /\ e.amount = f.amount

\* session s returns from awardXpOnce in this step
Returns(s) == Len(log'[s]) = Len(log[s]) + 1
Result(s) == log'[s][Len(log'[s])]

\* C1: one session calling awardXpOnce(u, K, amount) twice in a row with a
\* fresh non-empty K and amount > 0: the first call returns awarded = true,
\* the second awarded = false without failing, allTimeXP has grown by the
\* amounts of the awarded calls only (amount once, not twice), and no step
\* other than an awarding return changes the XP events or the aggregate
C1Twice ==
  LET L == log["s1"] IN
  /\ \A i \in 1..Len(L) - 1 :
       ValidEntry(L[i]) /\ SameCall(L[i], L[i + 1]) =>
         /\ ~L[i + 1].awarded /\ ~L[i + 1].failed
         /\ L[i].awarded <=> ~\E j \in 1..i - 1 : L[j].eventId = L[i].eventId /\ L[j].awarded
  /\ AllTimeXP = InitXP + AmountSum({c \in Ended : Entry(c).awarded})
C1Frame ==
  (stats' # stats \/ xp' # xp) => Returns("s1") /\ Result("s1").awarded
C1_SequentialIdempotence == [](C1Twice) /\ [][C1Frame]_vars
\* awardXpOnce(u1, "K", 10) twice: awarded, then not awarded, 10 XP gained
C1_Witness ==
  /\ Len(log["s1"]) = 2
  /\ log["s1"][1].eventId = "K" /\ log["s1"][1].awarded
  /\ log["s1"][2].eventId = "K" /\ ~log["s1"][2].awarded /\ ~log["s1"][2].failed
  /\ AllTimeXP = InitXP + 10

\* C2: sessions racing awardXpOnce on one key: over all their calls at most
\* one returns awarded = true, exactly one as soon as any of them has
\* returned a result; the key's XP event exists exactly when a call was
\* awarded, and carries that call's amount; allTimeXP has grown by the amount
\* of each awarded call, once
C2_ExactlyOncePerKey ==
  /\ AllTimeXP = XpSum(xp, DOMAIN xp)
  /\ \A k \in {in[2] : in \in ValidInputs} :
    /\ Cardinality(AwardedFor(k)) <= 1
    /\ (\E c \in Ended : Entry(c).eventId = k /\ ValidEntry(Entry(c)) /\ ~Entry(c).failed)
         => Cardinality(AwardedFor(k)) = 1
    /\ k \in DOMAIN xp <=> AwardedFor(k) # {}
    /\ \A c \in AwardedFor(k) : xp[k].amount = Entry(c).amount
\* both sessions called with "K" and 10 as their only call: one was awarded,
\* the other was not
C2_Witness ==
  /\ \E s \in Sessions, t \in Sessions :
       /\ s # t /\ Len(log[s]) = 1 /\ Len(log[t]) = 1
       /\ nops[s] = 1 /\ nops[t] = 1
       /\ log[s][1].eventId = "K" /\ log[s][1].awarded
       /\ log[t][1].eventId = "K" /\ ~log[t][1].awarded /\ ~log[t][1].failed
  /\ AllTimeXP = InitXP + 10

\* C3: ledger conservation: the aggregate's allTimeXP is the sum of the
\* amounts of the stored XP events
C3_LedgerConservation == AllTimeXP = XpSum(xp, DOMAIN xp)

\* C4: awardXpOnce calls racing from two sessions lose no increment:
\* allTimeXP is the initial allTimeXP plus the amount of every call that
\* returned awarded = true
C4_NoLostIncrement ==
  AllTimeXP = InitXP + AmountSum({c \in Ended : Entry(c).awarded})
\* two sessions were awarded different keys (10 and 15), each in its only
\* call
C4_Witness ==
  /\ \E s \in Sessions, t \in Sessions :
       /\ s # t /\ Len(log[s]) = 1 /\ Len(log[t]) = 1
       /\ nops[s] = 1 /\ nops[t] = 1
       /\ log[s][1].awarded /\ log[t][1].awarded
       /\ log[s][1].eventId = "K" /\ log[s][1].amount = 10
       /\ log[t][1].eventId = "DAILY_REFLECTIONS_COMPLETED_2024-01-08"
       /\ log[t][1].amount = 15
  /\ AllTimeXP = InitXP + 25

\* C5: awardXpOnce with an empty user, an empty key or amount <= 0 returns
\* not awarded (level null) without rejecting, creates no XP event and
\* leaves the aggregate as it was
C5Result ==
  \A c \in Ended :
    ~ValidEntry(Entry(c)) =>
      ~Entry(c).awarded /\ ~Entry(c).failed /\ Entry(c).level = {}
C5Frame ==
  \A s \in Sessions :
    Returns(s) /\ ~ValidEntry(Result(s)) => UNCHANGED <<stats, statsVer, xp>>
C5_InvalidInputNoOp ==
  [](C5Result /\ \A k \in DOMAIN xp : k # "" /\ xp[k].amount > 0) /\ [][C5Frame]_vars
\* the call awardXpOnce("u1", "K", 0) has returned
C5_Witness ==
  \E i \in 1..Len(log["s1"]) :
    log["s1"][i].amount = 0 /\ ~log["s1"][i].awarded /\ log["s1"][i].uid = "u1"

\* C6: a commit that awards: with the stored weeklyKey different from the
\* week key of the call (game.ts:81) weeklyXP becomes amount, otherwise
\* weeklyXP + amount; weeklyKey becomes the call's week key; allTimeXP
\* becomes allTimeXP + amount
C6Step ==
  \A s \in Sessions :
    Returns(s) /\ Result(s).awarded =>
      LET old == stats.data
          new == stats'.data
          amount == loc[s].amount
      IN /\ new.weeklyKey = loc[s].weekKey
         /\ new.weeklyXP = IF Field(old, "weeklyKey", <<>>) # loc[s].weekKey
                           THEN amount ELSE Field(old, "weeklyXP", 0) + amount
         /\ new.allTimeXP = Field(old, "allTimeXP", 0) + amount
C6_WeeklyResetOnAward == [][C6Step]_vars
\* the established user (weeklyXP 40 in 2024-W01) awarded 10 in 2024-W02
C6_Witness ==
  /\ stats.exists
  /\ Field(stats.data, "weeklyKey", <<>>) = <<2024, 2>>
  /\ Field(stats.data, "weeklyXP", 0) = 10
  /\ AllTimeXP = 50

\* C7: a commit that awards returns level = computeLevel(allTimeXP + amount),
\* and stores that level and its name in the aggregate
C7Step ==
  \A s \in Sessions :
    Returns(s) /\ Result(s).awarded =>
      LET level == computeLevel(AllTimeXP + loc[s].amount)
      IN /\ Result(s).level = {level}
         /\ stats'.data.level = level
         /\ stats'.data.levelName = computeLevelName(level)
C7_ReturnedLevelIsStored == [][C7Step]_vars
\* a call returned level 2 and the aggregate holds level 2, "levels.explorer"
C7_Witness ==
  /\ \E c \in Ended : Entry(c).awarded /\ Entry(c).level = {2}
  /\ Field(stats.data, "level", 0) = 2
  /\ Field(stats.data, "levelName", "") = "levels.explorer"

\* the scenario of C8: the established user, week 2024-W01 throughout, and
\* awardXpOnce(u1, "MOMENT_COMPLETED_2024-01-08", 10) as the only call
C8Scenario ==
  /\ now = StartTime
  /\ DOMAIN BaseEvents \subseteq DOMAIN xp
  /\ Len(log["s1"]) = 1
  /\ log["s1"][1].uid = "u1"
  /\ log["s1"][1].eventId = "MOMENT_COMPLETED_2024-01-08"
  /\ log["s1"][1].amount = 10
C8Aggregate ==
  /\ AllTimeXP = 50
  /\ Field(stats.data, "weeklyXP", 0) = 50
  /\ Field(stats.data, "level", 0) = 2
\* C8 as stated: the call returns {awarded: true, level: 1} and leaves
\* allTimeXP = 50, weeklyXP = 50, level = 2
C8_Original ==
  C8Scenario => log["s1"][1].awarded /\ log["s1"][1].level = {1} /\ C8Aggregate
\* C8 amended: the call returns {awarded: true, level: 2} and leaves
\* allTimeXP = 50, weeklyXP = 50, level = 2
C8_EndToEnd ==
  C8Scenario => log["s1"][1].awarded /\ log["s1"][1].level = {2} /\ C8Aggregate
C8_Witness == C8Scenario /\ pc["s1"] = "idle"

\* C9: XP events are append-only: a step removes no event and changes no
\* event's amount or weekKey
C9Step ==
  \A k \in DOMAIN xp :
    /\ k \in DOMAIN xp'
    /\ xp'[k].amount = xp[k].amount
    /\ xp'[k].weekKey = xp[k].weekKey
C9_EventsAppendOnly == [][C9Step]_vars
\* "K" was granted in 2024-W01, a call with "K" made in 2024-W02 has
\* returned not awarded, and reconcileStatsFromData has written
C9_Witness ==
  /\ "K" \in DOMAIN xp /\ xp["K"].weekKey = <<2024, 1>>
  /\ now > StartTime
  /\ \E s \in Sessions, t \in Sessions :
       /\ s # t
       /\ log[t] # <<>> /\ log[t][1].eventId = "K" /\ log[t][1].awarded
       /\ log[s] # <<>> /\ log[s][1].eventId = "K" /\ ~log[s][1].awarded
  /\ "lastReflectionAt" \in DOMAIN stats.data

\* C10: a rejected awardXpOnce (attempts exhausted) is reported as failed,
\* not as a result, and its last step writes nothing; when the session
\* calls again with the same key and that call returns a result, the key's
\* XP event exists, exactly one call over all sessions was awarded for it,
\* and allTimeXP holds every awarded amount once
C10Retry ==
  /\ \A c \in Ended : Entry(c).failed => ~Entry(c).awarded /\ Entry(c).level = {}
  /\ \A s \in Sessions : \A i \in 1..Len(log[s]) : \A j \in 1..Len(log[s]) :
       i < j /\ log[s][i].failed /\ log[s][j].eventId = log[s][i].eventId
             /\ ~log[s][j].failed =>
         /\ log[s][i].eventId \in DOMAIN xp
         /\ Cardinality(AwardedFor(log[s][i].eventId)) = 1
  /\ AllTimeXP = XpSum(xp, DOMAIN xp)
C10Frame ==
  \A s \in Sessions :
    Returns(s) /\ Result(s).failed => UNCHANGED <<stats, statsVer, xp>>
C10_FailureThenRetry == [](C10Retry) /\ [][C10Frame]_vars
\* a call with "K" was rejected after MaxAttempts conflicts, and the same
\* session's retry was awarded
C10_Witness ==
  \E s \in Sessions :
    /\ Len(log[s]) = 2
    /\ log[s][1].eventId = "K" /\ log[s][1].failed
    /\ log[s][2].eventId = "K" /\ log[s][2].awarded
    /\ "K" \in DOMAIN xp

\* C11: every awardXpOnce call terminates: a call never makes more than
\* MaxAttempts attempts, and every call that has started a transaction ends
\* (with a result or a rejection), whatever the other session commits
C11_AwardTerminates ==
  /\ [](\A s \in Sessions : loc[s].attempts <= MaxAttempts)
  /\ \A s \in Sessions : (pc[s] # "idle") ~> (pc[s] = "idle")
\* a call is at the commit of its last attempt, and the commit will be refused
C11_Witness ==
  \E s \in Sessions :
    /\ pc[s] = "tx_commit" /\ loc[s].attempts = MaxAttempts
    /\ ~TxPreconditions(s)

\* the fields of the aggregate the Ledger owns
LedgerFields == {"allTimeXP", "weeklyXP", "weeklyKey", "level", "levelName"}
\* session s takes this step
StepOf(s) == pc'[s] # pc[s] \/ loc'[s] # loc[s]
\* field f of the aggregate, when stored, keeps its value in this step
KeepsField(f) ==
  f \in DOMAIN stats.data => f \in DOMAIN stats'.data /\ stats'.data[f] = stats.data[f]

\* C12: no step of reconcileStatsFromData (its ensureStatsDoc included)
\* changes a Ledger-owned field of an existing aggregate
C12Step ==
  \A s \in Sessions :
    loc[s].op = "recon" /\ StepOf(s) /\ stats.exists =>
      \A f \in LedgerFields : KeepsField(f)
C12_ReconKeepsLedgerFields == [][C12Step]_vars

\* C13: a commit that awards changes no field of the aggregate other than
\* allTimeXP, weeklyXP, weeklyKey, level and levelName: every other field is
\* stored after the step exactly when it was before, with the same value
C13Step ==
  \A s \in Sessions :
    Returns(s) /\ Result(s).awarded =>
      \A f \in ((DOMAIN stats.data) \cup (DOMAIN stats'.data)) \ LedgerFields :
        /\ f \in DOMAIN stats.data /\ f \in DOMAIN stats'.data
        /\ stats'.data[f] = stats.data[f]
C13_AwardWritesLedgerFieldsOnly == [][C13Step]_vars
\* the established user was awarded 10: allTimeXP is 50, and momentsCount,
\* lastMomentAt, activeBadgeId and journeyWeekKey are as they were
C13_Witness ==
  /\ \E c \in Ended : Entry(c).awarded
  /\ AllTimeXP = 50
  /\ Field(stats.data, "momentsCount", 0) = BaseStats.data.momentsCount
  /\ Field(stats.data, "lastMomentAt", {}) = BaseStats.data.lastMomentAt
  /\ Field(stats.data, "activeBadgeId", {0}) = {}
  /\ Field(stats.data, "journeyWeekKey", <<>>) = <<2024, 1>>
  /\ Field(stats.data, "weeklyKey", <<>>) = <<2024, 2>>

\* C14: reconcileWeeklyReset, called by one session: the call writes only
\* when an aggregate exists whose weeklyKey differs from the current week
\* key; the write sets weeklyKey to that key and weeklyXP to 0 and keeps every
\* other field; the getDoc step writes nothing; so a second call in the same
\* week finds the keys equal and writes nothing
C14Get ==
  LET s == "s1" IN
  pc[s] = "idle" /\ pc'[s] \in {"idle", "weekly_update"} /\ nops'[s] = nops[s] + 1 =>
    /\ UNCHANGED <<stats, statsVer, xp>>
    /\ pc'[s] = "weekly_update" <=>
         stats.exists /\ Field(stats.data, "weeklyKey", <<>>) # getCurrentWeekKey(now)
    /\ pc'[s] = "weekly_update" => loc'[s].weekKey = getCurrentWeekKey(now)
C14Update ==
  LET s == "s1" IN
  pc[s] = "weekly_update" /\ pc'[s] = "idle" =>
    /\ stats'.exists
    /\ stats'.data.weeklyKey = loc[s].weekKey
    /\ stats'.data.weeklyXP = 0
    /\ DOMAIN stats'.data = DOMAIN stats.data
    /\ \A f \in (DOMAIN stats.data) \ {"weeklyKey", "weeklyXP"} :
         stats'.data[f] = stats.data[f]
    /\ UNCHANGED xp
C14Pending ==
  pc["s1"] = "weekly_update" =>
    stats.exists /\ Field(stats.data, "weeklyKey", <<>>) # loc["s1"].weekKey
C14_WeeklyResetIdempotent == [](C14Pending) /\ [][C14Get /\ C14Update]_vars
\* the established user (weeklyXP 40 in 2024-W01) after two calls of
\* reconcileWeeklyReset, the later one in 2024-W02: one reset, allTimeXP kept
C14_Witness ==
  /\ nops["s1"] = 2 /\ pc["s1"] = "idle" /\ log["s1"] = <<>>
  /\ now > StartTime
  /\ Field(stats.data, "weeklyKey", <<>>) = <<2024, 2>>
  /\ Field(stats.data, "weeklyXP", 1) = 0
  /\ AllTimeXP = 40

\* the number of thresholds of the table that are <= x
ThresholdsUpTo(x) ==
  Cardinality({i \in 1..Len(LEVEL_THRESHOLDS) : LEVEL_THRESHOLDS[i] <= x})
\* computeLevel has been applied to calc.x and calc.y
Computed == calc.lx # {} /\ calc.ly # {}

\* C15 as stated: for XP >= 0, computeLevel(xp) is 1 + the number of
\* thresholds <= xp, capped at the table length
C15_Original ==
  Computed /\ calc.x >= 0 =>
    calc.lx = {Min(1 + ThresholdsUpTo(calc.x), Len(LEVEL_THRESHOLDS))}
\* C15 amended: for XP >= 0, computeLevel(xp) is the number of thresholds
\* <= xp (the threshold 0 included), capped at the table length
C15_LevelIsThresholdCount ==
  Computed /\ calc.x >= 0 =>
    calc.lx = {Min(ThresholdsUpTo(calc.x), Len(LEVEL_THRESHOLDS))}
\* computeLevel(200) = 3: the thresholds 0, 50 and 200
C15_Witness == Computed /\ calc.x = 200 /\ calc.lx = {3}

\* C16: computeLevel at the boundary values: 0 -> 1, 49 -> 1, 50 -> 2,
\* 7500 -> 7, 1000000 -> 7
C16_BoundaryValues ==
  Computed =>
    /\ calc.x = 0 => calc.lx = {1}
    /\ calc.x = 49 => calc.lx = {1}
    /\ calc.x = 50 => calc.lx = {2}
    /\ calc.x = 7500 => calc.lx = {7}
    /\ calc.x = 1000000 => calc.lx = {7}
\* computeLevel(1000000) has been computed, and computeLevel(50) beside it
C16_Witness ==
  Computed /\ calc.x = 1000000 /\ calc.lx = {7} /\ calc.y = 50 /\ calc.ly = {2}

\* C17: computeLevel is non-decreasing in XP and its result lies in
\* 1..7, for negative and for very large XP as well
C17_LevelMonotoneBounded ==
  Computed =>
    /\ calc.lx \subseteq 1..Len(LEVEL_THRESHOLDS)
    /\ calc.x <= calc.y =>
         \A l \in calc.lx : \A m \in calc.ly : l <= m
\* computeLevel(50) = 2 and computeLevel(51) = 2
C17_Witness ==
  Computed /\ calc.x = 50 /\ calc.y = 51 /\ calc.lx = {2} /\ calc.ly = {2}

\* C18: the stored allTimeXP and the stored level never decrease in a step
C18Step ==
  /\ Field(stats'.data, "allTimeXP", 0) >= Field(stats.data, "allTimeXP", 0)
  /\ Field(stats'.data, "level", 1) >= Field(stats.data, "level", 1)
C18_XpAndLevelNeverDecrease == [][C18Step]_vars

\* the dates with a completed reflection
CompletedDates == {DateKeyOf(reflections, id) : id \in Completed(reflections)}
\* the number of consecutive days in dates that end with day d
RECURSIVE RunEndingAt(_, _)
RunEndingAt(dates, d) == IF d \in dates THEN 1 + RunEndingAt(dates, d - 1) ELSE 0
LongestRun(dates) ==
  IF dates = {} THEN 0
  ELSE LET d == CHOOSE e \in dates :
                  \A f \in dates : RunEndingAt(dates, e) >= RunEndingAt(dates, f)
       IN RunEndingAt(dates, d)
\* reconcileStatsFromData computes its updates in this step (line 147-231)
Computes(s) == pc[s] = "recon_reads" /\ pc'[s] = "recon_set"
\* reconcileStatsFromData writes its updates in this step (line 233)
Writes(s) == pc[s] = "recon_set" /\ pc'[s] = "idle"

\* C19: reconcileStatsFromData computes, and then stores, streakDays = the
\* number of consecutive days with a completed reflection that end today
\* (0 when today has none)
C19Step ==
  LET s == "s1" IN
  /\ Computes(s) =>
       loc'[s].updates.streakDays = RunEndingAt(CompletedDates, getCurrentDateKey(now))
  /\ Writes(s) => stats'.data.streakDays = loc[s].updates.streakDays
C19_StreakIsRunEndingToday == [][C19Step]_vars

\* C20: with today not among the completed-reflection dates,
\* reconcileStatsFromData computes, and then stores, streakDays = 0 and
\* bestStreakDays = the longest run of consecutive completed days
C20Step ==
  LET s == "s1" IN
  /\ Computes(s) /\ getCurrentDateKey(now) \notin CompletedDates =>
       /\ loc'[s].updates.streakDays = 0
       /\ loc'[s].updates.bestStreakDays = LongestRun(CompletedDates)
  /\ Writes(s) =>
       /\ stats'.data.streakDays = loc[s].updates.streakDays
       /\ stats'.data.bestStreakDays = loc[s].updates.bestStreakDays
C20_TodayAbsentZeroesStreakOnly == [][C20Step]_vars
\* reflections completed on the three days before today and not today:
\* stored streakDays 0, bestStreakDays 3
C20_Witness ==
  /\ CompletedDates = {BaseDay - 3, BaseDay - 2, BaseDay - 1}
  /\ pc["s1"] = "idle" /\ nops["s1"] = 1
  /\ Field(stats.data, "streakDays", 9) = 0
  /\ Field(stats.data, "bestStreakDays", 0) = 3

\* C21: reconcileStatsFromData computes, and then stores, bestStreakDays =
\* the longest run of consecutive days among the completed-reflection dates
\* (0 for none), a date with two completed records counting as one day, and
\* streakDays <= bestStreakDays
C21Step ==
  LET s == "s1" IN
  /\ Computes(s) =>
       /\ loc'[s].updates.bestStreakDays = LongestRun(CompletedDates)
       /\ loc'[s].updates.streakDays <= loc'[s].updates.bestStreakDays
  /\ Writes(s) =>
       /\ stats'.data.bestStreakDays = loc[s].updates.bestStreakDays
       /\ stats'.data.streakDays <= stats'.data.bestStreakDays
C21_BestStreakIsLongestRun == [][C21Step]_vars
\* yesterday has two completed records, the two days before it one each,
\* today none: bestStreakDays 3 is stored
C21_Witness ==
  /\ OtherId(BaseDay - 1) \in Completed(reflections)
  /\ CompletedDates = {BaseDay - 3, BaseDay - 2, BaseDay - 1}
  /\ Cardinality(Completed(reflections)) = 4
  /\ pc["s1"] = "idle" /\ nops["s1"] = 1
  /\ Field(stats.data, "bestStreakDays", 0) = 3

\* C22: reconcileStatsFromData computes reflectionsCount = the number of
\* distinct dates among the completed reflection records
C22Step ==
  Computes("s1") =>
    loc'["s1"].updates.reflectionsCount = Cardinality(CompletedDates)
C22_ReflectionsCountDistinctDates == [][C22Step]_vars

\* C23: reconcileStatsFromData computes, and then stores, momentsCount = the
\* number of moment records, depthMoments = the number of moments with at
\* least one tag or a non-empty note, and emotionCounts = for each emotion
\* the number of moments carrying it
Shallow == {id \in DOMAIN moments : moments[id].tags = 0 /\ ~moments[id].note}
Carrying(e) == {id \in DOMAIN moments : e \in moments[id].emotion}
C23Counts(u) ==
  /\ u.momentsCount = Cardinality(DOMAIN moments)
  /\ u.depthMoments = Cardinality(DOMAIN moments) - Cardinality(Shallow)
  /\ \A e \in {"Calm", "Hurt", "Happy"} :
       IF Carrying(e) = {} THEN e \notin DOMAIN u.emotionCounts
       ELSE u.emotionCounts[e] = Cardinality(Carrying(e))
C23Step ==
  /\ Computes("s1") => C23Counts(loc'["s1"].updates)
  /\ Writes("s1") => C23Counts(stats'.data)
C23_MomentCounts == [][C23Step]_vars
\* two moments of which one has a tag, and one completed reflection: 2, 1, 1
C23_Witness ==
  /\ Cardinality(DOMAIN moments) = 2
  /\ \E id \in DOMAIN moments : moments[id].tags = 1
  /\ Cardinality(Shallow) = 1
  /\ Cardinality(Completed(reflections)) = 1
  /\ pc["s1"] = "idle" /\ nops["s1"] = 1
  /\ stats.data.momentsCount = 2
  /\ stats.data.depthMoments = 1
  /\ stats.data.reflectionsCount = 1

\* C24: reconcileStatsFromData computes journeyDay = the number of distinct
\* days, among today and the six days before it, on which a moment was
\* created, whatever the time of day, and journeyDay is within 0..7
MomentDays == {DayOf(c) : c \in UNION {moments[id].createdAt : id \in DOMAIN moments}}
C24Step ==
  Computes("s1") =>
    LET today == getCurrentDateKey(now) IN
    /\ loc'["s1"].updates.journeyDay \in 0..7
    /\ loc'["s1"].updates.journeyDay =
         Cardinality(MomentDays \cap ((today - 6)..today))
C24_JourneyDayWindow == [][C24Step]_vars

\* C25: a second run of reconcileStatsFromData on the same date as the
\* first, the records unchanged, leaves the fields it writes as the first
\* run left them
ReconFields ==
  {"momentsCount", "reflectionsCount", "streakDays", "bestStreakDays", "journeyDay",
   "lastMomentAt", "lastReflectionAt", "depthMoments", "emotionCounts"}
C25Step ==
  (Writes("s1") /\ nops["s1"] = 2 /\ DayOf(now) = BaseDay) =>
    \A f \in ReconFields : stats'.data[f] = stats.data[f]
C25_RepeatSameDate == [][C25Step]_vars

\* C26: every record reconcileBadges writes has progressTarget = the
\* definition's threshold, progressCurrent = the value of the source its
\* criteriaType selects, as the call read it, and earned = (progressCurrent
\* >= threshold and threshold > 0)
C26Source(def, statsData, m, r) ==
  LET c == def.criteriaType IN
  IF c = "moments_logged" THEN statsData.momentsCount
  ELSE IF c = "reflections_completed"
       THEN Cardinality({CHOOSE d \in r[id].dateKey : TRUE : id \in {i \in DOMAIN r : r[i].completed}})
  ELSE IF c = "tags_added"
       THEN Cardinality({id \in DOMAIN m : m[id].tags > 0 \/ m[id].note})
  ELSE IF c = "emotion_logged"
       THEN Cardinality({id \in DOMAIN m : def.emotionType \in m[id].emotion})
  ELSE IF c = "streak_days" THEN statsData.streakDays
  ELSE IF "patternsViewed" \in DOMAIN statsData THEN statsData.patternsViewed ELSE 0
C26Step ==
  LET s == "s2" IN
  (pc[s] = "badges_write" /\ loc'[s] # loc[s]) =>
    LET def == BADGE_DEFINITIONS[loc[s].next]
        rec == badges'[def.id]
        src == C26Source(def, loc[s].statsSeen.data,
                         CHOOSE x \in loc[s].momentsSeen : TRUE,
                         CHOOSE x \in loc[s].reflectionsSeen : TRUE)
    IN /\ rec.progressTarget = def.threshold
       /\ rec.progressCurrent = src
       /\ rec.earned = (src >= def.threshold /\ def.threshold > 0)
C26_BadgeRecords == [][C26Step]_vars
\* a run of reconcileBadges has written the whole catalog; with momentsCount
\* 1 first_steps is earned, and with two records of one completed date
\* reflection_starter has progress 1
C26_Witness ==
  /\ pc["s2"] = "idle" /\ nops["s2"] = 1 /\ nops["s1"] = 0
  /\ DOMAIN badges = {BADGE_DEFINITIONS[i].id : i \in DOMAIN BADGE_DEFINITIONS}
  /\ stats.data.momentsCount = 1
  /\ badges["first_steps"].earned
  /\ Cardinality(Completed(reflections)) = 2
  /\ badges["reflection_starter"].progressCurrent = 1
  /\ ~badges["streak_starter"].earned

\* C27: a badge record with earned = true keeps earned = true
C27Step ==
  \A b \in DOMAIN badges : badges[b].earned => badges'[b].earned
C27_EarnedMonotonic == [][C27Step]_vars

\* C28: when a write of the batch of reconcileBadges has been rejected, every
\* other badge of the catalog has its record, and the reconcile effect goes
\* on to reconcileDailyQuests
C28Step ==
  LET s == "s1" IN
  (pc[s] = "badges_write" /\ loc[s].next = Len(BADGE_DEFINITIONS) /\ loc'[s] # loc[s]) =>
    /\ \A i \in 1..(Len(BADGE_DEFINITIONS) - 1) :
         BADGE_DEFINITIONS[i].id \in DOMAIN badges' \cup loc[s].failed
    /\ pc'[s] = "quests_reads"
C28_FailSoftBatch == [][C28Step]_vars

\* C29: reconcileDailyQuests grants 15 XP under DAILY_REFLECTIONS_COMPLETED_
\* <dateKey> only if the reflection of dateKey is completed and 10 XP under
\* MOMENT_COMPLETED_<dateKey> only if a moment was created on dateKey; a call
\* that ends has made each grant whose condition it read as true; and all
\* calls together raise allTimeXP by each grant at most once, at most 25 for
\* a dateKey
QuestDays == BaseDay..(BaseDay + 2)
DailyKey(d) == "DAILY_REFLECTIONS_COMPLETED_" \o DateString(d)
MomentKey(d) == "MOMENT_COMPLETED_" \o DateString(d)
ReflectionCompleted(d) == d \in DOMAIN reflections /\ reflections[d].completed
MomentOn(d) ==
  \E id \in DOMAIN moments : \E c \in moments[id].createdAt : c \div TicksPerDay = d
\* what the calls have added to the ledger for day d
QuestXP(d) ==
  XpSum(xp, {k \in {DailyKey(d), MomentKey(d)} : k \in DOMAIN xp /\ k \notin DOMAIN BaseEvents})
C29Ledger ==
  /\ AllTimeXP = InitXP + QuestXP(BaseDay) + QuestXP(BaseDay + 1) + QuestXP(BaseDay + 2)
  /\ DOMAIN xp \subseteq DOMAIN BaseEvents \cup {DailyKey(d) : d \in QuestDays}
                                           \cup {MomentKey(d) : d \in QuestDays}
  /\ \A d \in QuestDays :
       /\ QuestXP(d) <= 25
       /\ DailyKey(d) \in DOMAIN xp => xp[DailyKey(d)].amount = 15
       /\ MomentKey(d) \in DOMAIN xp => xp[MomentKey(d)].amount = 10
C29Step ==
  \A s \in Sessions : \A d \in QuestDays :
    /\ (DailyKey(d) \in DOMAIN xp' \ DOMAIN xp) => ReflectionCompleted(d)
    /\ (MomentKey(d) \in DOMAIN xp' \ DOMAIN xp) => MomentOn(d)
    /\ (loc[s].op = "quests" /\ loc[s].dateKey = d /\ pc[s] # "quests_reads"
          /\ pc'[s] = "idle") =>
         /\ ReflectionCompleted(d) => DailyKey(d) \in DOMAIN xp'
         /\ loc[s].eventId = MomentKey(d) => MomentKey(d) \in DOMAIN xp'
    /\ (loc[s].op = "quests" /\ loc[s].dateKey = d /\ pc[s] = "quests_reads"
          /\ pc'[s] # "quests_reads") =>
         /\ (pc'[s] = "idle") = (~ReflectionCompleted(d) /\ ~MomentOn(d))
         /\ MomentOn(d) =>
              \/ loc'[s].eventId = MomentKey(d)
              \/ loc'[s].todo = <<[eventId |-> MomentKey(d), amount |-> 10]>>
C29_DailyQuestGrants == []C29Ledger /\ [][C29Step]_vars
\* the new user with a completed reflection and a moment of today: after
\* three calls that ended, the two grants are in the ledger and allTimeXP is 25
C29_Witness ==
  /\ nops["s1"] + nops["s2"] >= 3
  /\ \A s \in Sessions : pc[s] = "idle"
  /\ DOMAIN xp = {DailyKey(BaseDay), MomentKey(BaseDay)}
  /\ AllTimeXP = 25

\* C30: whenever no save, reset or mark-complete call is under way and no
\* effect is pending, the reflection record of every date has completed =
\* true exactly when its three answers are non-empty
Quiescent == \A s \in Sessions : pc[s] = "idle" /\ ~cards[s].effect
AllAnswered(d) == \A f \in AnswerFields : Field(reflections[d], f, {}) # {}
C30_CompletedIffAllAnswered ==
  Quiescent =>
    \A d \in DOMAIN reflections :
      Field(reflections[d], "completed", FALSE) = AllAnswered(d)

\* C31: getCurrentWeekKey gives the ISO-8601 week of its date: the days
\* Monday to Sunday of one week have one key, days of different weeks have
\* different keys, in particular the Monday after, the week number is in
\* 1..53 and is one more than the number of earlier Thursdays of the same
\* year, and the year is the year of the week's Thursday
MondayOf(d) == d - ((d + 3) % 7)
ThursdayOf(d) == MondayOf(d) + 3
EarlierThursdays(d) ==
  {e \in YearStart(YearOfDay(ThursdayOf(d)))..(ThursdayOf(d) - 1) : (e + 4) % 7 = 4}
C31_IsoWeekKey ==
  Computed =>
    LET dx == calc.x \div TicksPerDay
        dy == calc.y \div TicksPerDay
        kx == CHOOSE k \in calc.lx : TRUE
        ky == CHOOSE k \in calc.ly : TRUE
    IN /\ (kx = ky) = (MondayOf(dx) = MondayOf(dy))
       /\ dy = MondayOf(dx) + 7 => kx # ky
       /\ kx[2] \in 1..53
       /\ kx[2] = Cardinality(EarlierThursdays(dx)) + 1
       /\ kx[1] = YearOfDay(ThursdayOf(dx))
\* Friday 2021-01-01 lies in 2020-W53, and the Monday after it in 2021-W01
C31_Witness ==
  /\ Computed
  /\ calc.x \div TicksPerDay = YearStart(2021)
  /\ calc.lx = {<<2020, 53>>}
  /\ calc.y \div TicksPerDay = YearStart(2021) + 3
  /\ calc.ly = {<<2021, 1>>}

\* C34: computeLevelName(level) is the name at position clamp(level, 1, 7)
\* of the table, for level 0, negative levels and levels above 7 as well
Clamped(level) == IF level < 1 THEN 1 ELSE IF level > 7 THEN 7 ELSE level
C34_LevelNameClamped ==
  Computed =>
    /\ calc.lx = {LEVEL_NAMES[Clamped(calc.x)]}
    /\ calc.ly = {LEVEL_NAMES[Clamped(calc.y)]}
\* computeLevelName(0) is the first name and computeLevelName(9) the last
C34_Witness ==
  /\ Computed
  /\ calc.x = 0 /\ calc.lx = {"levels.beginner"}
  /\ calc.y = 9 /\ calc.ly = {"levels.sage"}

\* C33: an awardXpOnce call with valid arguments that completes while the
\* aggregate does not exist is no error: it returns awarded = true with the
\* new level, and leaves an aggregate with allTimeXP = amount, weeklyXP =
\* amount, weeklyKey = the week key the call took and level =
\* computeLevel(amount)
C33Step(s) ==
  (Returns(s) /\ ValidEntry(Result(s)) /\ ~stats.exists) =>
    LET r == Result(s) IN
      /\ r.awarded /\ ~r.failed
      /\ r.level = {computeLevel(r.amount)}
      /\ stats'.exists
      /\ stats'.data.allTimeXP = r.amount
      /\ stats'.data.weeklyXP = r.amount
      /\ stats'.data.weeklyKey = loc[s].weekKey
      /\ stats'.data.level = computeLevel(r.amount)
      /\ stats'.data.levelName = computeLevelName(computeLevel(r.amount))
C33_AwardCreatesAggregate == [][\A s \in Sessions : C33Step(s)]_vars
\* a new user's first award of 15 XP has returned awarded = true and the
\* aggregate holds 15, 15, the current week and level 1
C33_Witness ==
  /\ DOMAIN xp = {"DAILY_REFLECTIONS_COMPLETED_2024-01-08"}
  /\ \E s \in Sessions : Len(log[s]) = 1 /\ log[s][1].awarded /\ log[s][1].amount = 15
  /\ stats.exists
  /\ stats.data.allTimeXP = 15 /\ stats.data.weeklyXP = 15
  /\ stats.data.weeklyKey = getCurrentWeekKey(now) /\ stats.data.level = 1

\* C36: whenever the aggregate exists, its stored level is
\* computeLevel(stored allTimeXP), under every interleaving of awardXpOnce, ensureStatsDoc, loadProgress,
\* reconcileWeeklyReset and reconcileStatsFromData
C36_LevelMatchesXP ==
  stats.exists => stats.data.level = computeLevel(stats.data.allTimeXP)
\* an award has taken the aggregate over a threshold and the level followed
C36_Witness ==
  /\ stats.exists
  /\ stats.data.allTimeXP >= 50
  /\ stats.data.level = 2
  /\ \E s \in Sessions : \E i \in 1..Len(log[s]) : log[s][i].awarded

\* C35: in every state in which the aggregate exists, its weeklyXP is the
\* sum of the amounts of the XP events whose weekKey is the aggregate's
\* weeklyKey, under every interleaving of reconcileWeeklyReset of one
\* session with awardXpOnce of another
WeekEvents == {k \in DOMAIN xp : xp[k].weekKey = Field(stats.data, "weeklyKey", <<>>)}
C35_WeeklyXPIsWeekSum ==
  stats.exists => Field(stats.data, "weeklyXP", 0) = XpSum(xp, WeekEvents)

\* C38: a badge record turns earned once: a write of a later reconcileBadges
\* run that finds an earned badge still earned leaves its earnedAt as it was
C38Step ==
  \A s \in Sessions :
    pc[s] = "badges_write" =>
      \A b \in DOMAIN badges :
        (badges[b].earned /\ badges'[b].earned) => badges'[b].earnedAt = badges[b].earnedAt
C38_EarnedAtKept == [][C38Step]_vars

\* C40: awardBadge is idempotent: a call for a known badge and a user made
\* when the record has earned = true writes nothing (earnedAt and progress
\* stay) and returns success = true, alreadyEarned = true; a call for an
\* unknown badge id or an empty user returns success = false and writes
\* nothing; a call made when there is no earned record leaves it earned and
\* returns success = true, alreadyEarned = false
C40Step(s) ==
  ret'[s] # ret[s] =>
    LET r == CHOOSE x \in ret'[s] : TRUE
        known == \E i \in 1..Len(BADGE_DEFINITIONS) : BADGE_DEFINITIONS[i].id = r.badgeId
        earnedBefore == r.badgeId \in DOMAIN badges /\ badges[r.badgeId].earned
    IN /\ (~known \/ r.userId = "") =>
            ~r.success /\ ~r.alreadyEarned /\ r.badge = {} /\ badges' = badges
       /\ (known /\ r.userId # "" /\ earnedBefore) =>
            r.success /\ r.alreadyEarned /\ badges' = badges
       /\ (known /\ r.userId # "" /\ ~earnedBefore) =>
            r.success /\ ~r.alreadyEarned /\ badges'[r.badgeId].earned
C40_AwardBadgeIdempotent == [][\A s \in Sessions : C40Step(s)]_vars
\* the second awardBadge("u1", "streak_starter") has found the badge earned
C40_Witness ==
  /\ "streak_starter" \in DOMAIN badges
  /\ badges["streak_starter"].earned
  /\ \E r \in ret["s2"] :
       /\ r.call = 2 /\ r.userId = "u1" /\ r.badgeId = "streak_starter"
       /\ r.success /\ r.alreadyEarned

\* C37: the XP for completing the daily reflection of a date is granted
\* exactly once: over all runs of the mark-complete effect and of
\* reconcileDailyQuests, at most one call is awarded under
\* DAILY_REFLECTIONS_COMPLETED_<date>, its event holds 15, and allTimeXP is
\* what it was before plus 15 for every date granted
DailyGranted == {d \in QuestDays : AwardedFor(DailyKey(d)) # {}}
\* what the user had before the run: the established user's 40 XP, or none
XPBefore ==
  IF "MOMENT_COMPLETED_e0" \in DOMAIN xp THEN XpSum(BaseEvents, DOMAIN BaseEvents) ELSE 0
C37_DailyXPOnce ==
  /\ \A d \in QuestDays :
       /\ Cardinality(AwardedFor(DailyKey(d))) <= 1
       /\ d \in DailyGranted => DailyKey(d) \in DOMAIN xp /\ xp[DailyKey(d)].amount = 15
  /\ AllTimeXP = XPBefore + 15 * Cardinality(DailyGranted)

\* C32: a moment whose createdAt is no valid date does not abort
\* reconcileStatsFromData or reconcileDailyQuests: it is skipped and the
\* other records are processed.  reconcileDailyQuests goes on to its grants
\* exactly when the reflection of the day is completed or a moment with a
\* valid date was created on the day; reconcileStatsFromData writes its
\* result, with lastMomentAt the latest valid createdAt
ValidCreated == UNION {moments[id].createdAt : id \in DOMAIN moments} \ {InvalidDate}
ValidMomentOn(d) == \E c \in ValidCreated : c \div TicksPerDay = d
C32Step ==
  \A s \in Sessions :
    /\ (pc[s] = "quests_reads" /\ pc'[s] # "quests_reads") =>
         ((pc'[s] = "idle") =
            (~ReflectionCompleted(loc[s].dateKey) /\ ~ValidMomentOn(loc[s].dateKey)))
    /\ (pc[s] = "recon_set" /\ pc'[s] # "recon_set") =>
         /\ loc[s].updates.lastMomentAt = Latest(ValidCreated)
         /\ stats'.exists
         /\ stats'.data.lastMomentAt = Latest(ValidCreated)
         /\ stats'.data.momentsCount = loc[s].updates.momentsCount
C32_MalformedSkipped == [][C32Step]_vars

\* C39: a moment saved through the capture flow is counted by the engine:
\* reconcileStatsFromData never stores a momentsCount below the number of
\* moments handleSubmit has saved and counted, the aggregate reconcileBadges
\* reads counts them, and its first_steps record is earned once a moment
\* has been saved
Saving == {s \in Sessions : pc[s] \in {"capture_ensure", "capture_ensure_set",
                                        "capture_update"}}
Saved == Cardinality(DOMAIN events) - Cardinality(Saving)
C39Step ==
  \A s \in Sessions :
    /\ (pc[s] = "recon_set" /\ pc'[s] # "recon_set") =>
         stats'.data.momentsCount >= Saved
    /\ (pc[s] = "idle" /\ pc'[s] = "badges_reads") =>
         Field(loc'[s].statsSeen.data, "momentsCount", 0) >= Saved
    /\ (pc[s] = "badges_write" /\ loc[s].next = 1 /\ loc'[s] # loc[s]) =>
         (badges'["first_steps"].earned
            = (Field(loc[s].statsSeen.data, "momentsCount", 0) >= 1))
C39_CapturedMomentsCounted == [][C39Step]_vars

====
